---- MODULE Spec2Model ----
(***************************************************************************)
(* VoiceNote: the session controller (VoiceNoteApp in main.py) and the     *)
(* audio recorder (AudioRecorder in recorder.py).                          *)
(*                                                                         *)
(* Triggers reach toggle_recording from two threads: the event-tap thread  *)
(* started by _setup_hotkey ("listener") and the rumps main thread that    *)
(* runs menu callbacks ("menu").  main.py takes no lock around its flags,  *)
(* so each handler is modelled statement by statement: one step per read   *)
(* or write of a shared attribute.  The recorder's start() and the locked  *)
(* part of stop() run under AudioRecorder._lock and are one step each.     *)
(*                                                                         *)
(* Two parts of the program are modelled on their own, each under its own  *)
(* specification: the double-tap detector of _setup_hotkey (GestureSpec)   *)
(* and one run of _process_audio step by step (PipelineSpec).              *)
(*                                                                         *)
(* The text functions the run calls are computed on texts given as         *)
(* sequences of characters, each under its own specification as well:      *)
(* AppProfileManager.get_profile (ResolverSpec), _strip_markdown and       *)
(* apply_profile (ReducerSpec), VoiceCommandProcessor.process (VoiceSpec), *)
(* OfflineFormatter.format_text (OfflineSpec).                             *)
(***************************************************************************)
EXTENDS Naturals, Integers, Sequences, FiniteSets

\* Bounds of the model.
MaxTriggers == 4
MaxFrames == 1
MaxLoaders == 1
MaxEvents == 8
MaxCalls == 3
MaxTokens == 4
MaxPasses == 2
MaxWords == 3
MaxPieces == 4

\* TAP_THRESHOLD and DOUBLE_TAP_INTERVAL of _setup_hotkey (0.25 s and
\* 0.5 s), in milliseconds as every time of the detector here.
TAP_THRESHOLD == 250
DOUBLE_TAP_INTERVAL == 500

\* The length from which _process_audio gives a text to the remote
\* formatter (main.py 279).
RemoteMinLength == 100

\* time.time() at the first key event: any time far from 0, the value
\* _rcmd_last_tap holds when no tap is pending.
Epoch == 100000

\* The times that pass between one key event and the next: below, at and
\* above TAP_THRESHOLD, and up to DOUBLE_TAP_INTERVAL.
Delays == {0, 125, 250, 375, 500}

Threads == {"listener", "menu"}
FileIds == 1..MaxTriggers
StreamIds == 1..MaxTriggers

\* VoiceNoteApp.ICON_IDLE / ICON_RECORDING / ICON_PROCESSING
ICON_IDLE == "idle"
ICON_RECORDING == "recording"
ICON_PROCESSING == "processing"

\* The three titles main.py gives the record button.
BTN_START == "start"
BTN_STOP == "stop"
BTN_BUSY == "busy"

VARIABLES
  recording,            \* VoiceNoteApp._recording
  processing,           \* VoiceNoteApp._processing
  transcriber_loading,  \* VoiceNoteApp._transcriber_loading
  transcriber_loaded,   \* _transcriber is not None and _transcriber.is_loaded
  title,                \* the menu-bar icon, rumps.App.title
  button,               \* record_button.title
  rec_recording,        \* AudioRecorder._recording
  rec_frames,           \* AudioRecorder._frames: the stream each frame came from
  rec_stream,           \* AudioRecorder._stream: 0 is None, else the stream's id
  openStreams,          \* input streams opened and not yet closed
  activeStreams,        \* open streams that were started (their callback fires)
  pc,                   \* where each trigger thread stands in toggle_recording
  audio_path,           \* _stop_recording's local audio_path, per thread (0: none)
  received,             \* the session's phase when the thread's trigger arrived
  job,                  \* the _process_audio thread of each temporary file
  notification,         \* the last notification toggle_recording posted
  files,                \* temporary WAV files that exist
  fileFrames,           \* what each temporary file was written from
  loaders,              \* _preload_model_async threads, counted per stage
  nTriggers,            \* triggers that found the session not busy, so far
  nStarts,              \* recorder.start() calls that went past its guard
  nFiles,               \* temporary files created so far
  now,                  \* time.time() at the latest key event, in ms
  rcmd_press_time,      \* VoiceNoteApp._rcmd_press_time
  rcmd_last_tap,        \* VoiceNoteApp._rcmd_last_tap
  rcmd_was_pressed,     \* VoiceNoteApp._rcmd_was_pressed
  emitted,              \* calls of toggle_recording by the detector, so far
  last_kind,            \* what the previous press/release pair was
  last_release,         \* when the previous press/release pair ended
  quick_taps,           \* the key events so far are this many quick taps in a row
  nEvents,              \* key events so far
  has_formatter,        \* VoiceNoteApp._formatter is not None
  auto_paste,           \* config "auto_paste"
  save_markdown,        \* config "save_markdown"
  transcript,           \* what transcribe returned in the run
  long,                 \* len(processed_text) >= 100
  text,                 \* the steps the run's text has been through
  ran,                  \* the steps of the run that were entered
  calls,                \* how often the run called each output sink
  clipboard,            \* the texts copied to the clipboard
  pasted,               \* the paste keystroke was sent
  saved,                \* the texts saved as Markdown files
  notice,               \* the last notification of the run
  raw_text,             \* raw_text of _process_audio, as characters
  steps,                \* the steps of the run in the order they were entered
  polls,                \* calls of get_active_app in the run
  profiles_enabled,     \* AppProfileManager.enabled
  stored_app_name,      \* the "_app_name" entry of each dict of _profiles
  returned,             \* what the calls of get_profile returned, in order
  src,                  \* the text given to _strip_markdown / apply_profile
  passes,               \* what successive calls of _strip_markdown returned
  applied,              \* the call of apply_profile and what it returned
  commands_enabled,     \* VoiceCommandProcessor.enabled
  custom_commands,      \* the custom_commands given to VoiceCommandProcessor
  heard,                \* the text given to process
  vc_result,            \* result of process
  voice_pc,             \* where the call of process stands
  fired,                \* the matches of each pattern applied so far
  offline_raw,          \* the raw_text given to OfflineFormatter.format_text
  offline_called,       \* format_text of the OfflineFormatter has returned
  offline_text          \* what it returned

ctl == <<recording, processing, transcriber_loading, transcriber_loaded>>
ui == <<title, button>>
recorder == <<rec_recording, rec_frames, rec_stream, openStreams, activeStreams, nStarts>>
thr == <<pc, audio_path, received, nTriggers>>
jobs == <<job, notification>>
fs == <<files, fileFrames, nFiles>>
ldr == <<loaders>>
session == <<ctl, ui, recorder, thr, jobs, fs, ldr>>
detector == <<now, rcmd_press_time, rcmd_last_tap, rcmd_was_pressed, emitted,
              last_kind, last_release, quick_taps, nEvents>>
run == <<has_formatter, auto_paste, save_markdown, transcript, long, text, ran,
         calls, clipboard, pasted, saved, notice, raw_text, steps, polls>>
resolver == <<profiles_enabled, stored_app_name, returned>>
reducer == <<src, passes, applied>>
voice == <<commands_enabled, custom_commands, heard, vc_result, voice_pc, fired>>
offline == <<offline_raw, offline_called, offline_text>>
side == <<detector, run, resolver, reducer, voice, offline>>
vars == <<session, side>>

(***************************************************************************)
(* Text: a str is the sequence of its characters, each a one-character     *)
(* string.  A character that is not ASCII is written as its reading, and   *)
(* the backtick as "backtick".                                             *)
(***************************************************************************)

\* The characters \s and str.strip() take, of those used here.
Whitespace == {" ", "\t", "\n"}

\* s[i:].startswith(d), positions counted from 1.
StartsWith(s, i, d) ==
  /\ i + Len(d) - 1 <= Len(s)
  /\ SubSeq(s, i, i + Len(d) - 1) = d

\* How many characters of s from position i on are in chars: what a
\* greedy [chars]* takes there.
RECURSIVE RunLength(_, _, _)
RunLength(s, i, chars) ==
  IF i <= Len(s) /\ s[i] \in chars THEN 1 + RunLength(s, i + 1, chars) ELSE 0

\* Where ^ matches under re.MULTILINE.
AtLineStart(s, i) == i = 1 \/ s[i - 1] = "\n"

\* The characters of a str, as a set.
Chars(s) == {s[i] : i \in 1..Len(s)}

\* The least number of a set of numbers that is not empty.
Least(S) == CHOOSE n \in S : \A m \in S : n <= m

\* re.sub(r"\n{3,}", "\n\n", s) from position i on: the leftmost run of
\* three newlines or more becomes two, and the scan goes on behind it.
RECURSIVE CollapseNewlines(_, _)
CollapseNewlines(s, i) ==
  LET found == {j \in i..Len(s) : RunLength(s, j, {"\n"}) >= 3}
  IN  IF found = {} THEN SubSeq(s, i, Len(s))
      ELSE LET j == Least(found)
           IN  SubSeq(s, i, j - 1) \o <<"\n", "\n">>
                 \o CollapseNewlines(s, j + RunLength(s, j, {"\n"}))

\* str.lstrip(chars) and str.rstrip(chars).
LStrip(s, chars) ==
  LET kept == {j \in 1..Len(s) : s[j] \notin chars}
  IN  IF kept = {} THEN <<>> ELSE SubSeq(s, Least(kept), Len(s))

RStrip(s, chars) ==
  LET kept == {j \in 1..Len(s) : s[j] \notin chars}
  IN  IF kept = {} THEN <<>>
      ELSE SubSeq(s, 1, CHOOSE j \in kept : \A m \in kept : m <= j)

\* All the texts made of at most n of the given pieces, one after another.
RECURSIVE TextsOf(_, _)
TextsOf(pieces, n) ==
  IF n = 0 THEN {<<>>}
  ELSE LET shorter == TextsOf(pieces, n - 1)
       IN  shorter \cup {t \o p : t \in shorter, p \in pieces}

(***************************************************************************)
(* AppProfileManager._strip_markdown and apply_profile                     *)
(* (app_profiles.py 199-260)                                               *)
(***************************************************************************)

\* The length of the match of ^#{1,6}\s+ at position i of s, 0 for none:
\* one to six # and then all the white space that follows, newlines too.
HeadingLen(s, i) ==
  LET k == RunLength(s, i, {"#"})
      w == RunLength(s, i + k, Whitespace)
  IN  IF k >= 1 /\ k <= 6 /\ w >= 1 THEN k + w ELSE 0

\* The same for ^[\s]*[-*+]\s+ .
BulletLen(s, i) ==
  LET w0 == RunLength(s, i, Whitespace)
      w1 == RunLength(s, i + w0 + 1, Whitespace)
  IN  IF i + w0 <= Len(s) /\ s[i + w0] \in {"-", "*", "+"} /\ w1 >= 1
        THEN w0 + 1 + w1 ELSE 0

\* The same for ^[\s]*\d+\.\s+ .
NumberLen(s, i) ==
  LET w0 == RunLength(s, i, Whitespace)
      d  == RunLength(s, i + w0, {"0", "1", "2", "3", "4", "5", "6", "7", "8", "9"})
      w1 == RunLength(s, i + w0 + d + 1, Whitespace)
  IN  IF d >= 1 /\ i + w0 + d <= Len(s) /\ s[i + w0 + d] = "." /\ w1 >= 1
        THEN w0 + d + 1 + w1 ELSE 0

\* The same for ^>\s+ .
QuoteLen(s, i) ==
  LET w == RunLength(s, i + 1, Whitespace)
  IN  IF s[i] = ">" /\ w >= 1 THEN 1 + w ELSE 0

\* The same for ^---+$ : three dashes or more that are a whole line.
RuleLen(s, i) ==
  LET k == RunLength(s, i, {"-"})
  IN  IF k >= 3 /\ (i + k > Len(s) \/ s[i + k] = "\n") THEN k ELSE 0

LinePatternLen(pattern, s, i) ==
  CASE pattern = "heading" -> HeadingLen(s, i)
    [] pattern = "bullet"  -> BulletLen(s, i)
    [] pattern = "number"  -> NumberLen(s, i)
    [] pattern = "quote"   -> QuoteLen(s, i)
    [] pattern = "rule"    -> RuleLen(s, i)

\* re.sub(pattern, "", s, flags=re.MULTILINE) from position i on, for the
\* five patterns anchored at ^: the leftmost match is deleted and the scan
\* goes on behind it, where ^ still looks at the character before.
RECURSIVE DeleteAtLineStarts(_, _, _)
DeleteAtLineStarts(pattern, s, i) ==
  IF i > Len(s) THEN <<>>
  ELSE LET m == IF AtLineStart(s, i) THEN LinePatternLen(pattern, s, i) ELSE 0
       IN  IF m > 0 THEN DeleteAtLineStarts(pattern, s, i + m)
           ELSE <<s[i]>> \o DeleteAtLineStarts(pattern, s, i + 1)

\* Where the lazy (.+?) of an emphasis pattern ends: the first position
\* from j on where the closing marker d stands, with no newline before it
\* (. matches none); 0 when there is none.
RECURSIVE ClosingMarker(_, _, _)
ClosingMarker(s, j, d) ==
  IF j + Len(d) - 1 > Len(s) THEN 0
  ELSE IF StartsWith(s, j, d) THEN j
  ELSE IF s[j] = "\n" THEN 0
  ELSE ClosingMarker(s, j + 1, d)

\* re.sub(d(.+?)d, r"\1", s) from position i on, for a marker d: ** * __ _
\* and the backtick.  Between the markers stands at least one character.
RECURSIVE Unwrap(_, _, _)
Unwrap(s, i, d) ==
  IF i > Len(s) THEN <<>>
  ELSE LET o == i + Len(d)
           j == IF StartsWith(s, i, d) /\ o <= Len(s) /\ s[o] # "\n"
                  THEN ClosingMarker(s, o + 1, d) ELSE 0
       IN  IF j > 0 THEN SubSeq(s, o, j - 1) \o Unwrap(s, j + Len(d), d)
           ELSE <<s[i]>> \o Unwrap(s, i + 1, d)

\* The fence of a code block.
Fence == <<"backtick", "backtick", "backtick">>

\* Where the lazy [\s\S]*? of the code-block pattern ends: the first fence
\* from j on, whatever stands before it; 0 when there is none.
RECURSIVE ClosingFence(_, _)
ClosingFence(s, j) ==
  IF j + 2 > Len(s) THEN 0
  ELSE IF StartsWith(s, j, Fence) THEN j
  ELSE ClosingFence(s, j + 1)

\* re.sub(r"```[\s\S]*?```", "", s) from position i on (line 243).
RECURSIVE DeleteFences(_, _)
DeleteFences(s, i) ==
  IF i > Len(s) THEN <<>>
  ELSE LET j == IF StartsWith(s, i, Fence) THEN ClosingFence(s, i + 3) ELSE 0
       IN  IF j > 0 THEN DeleteFences(s, j + 3)
           ELSE <<s[i]>> \o DeleteFences(s, i + 1)

\* _strip_markdown (lines 226-260), its substitutions in the order of the
\* source.
StripMarkdown(txt) ==
  LET headings == DeleteAtLineStarts("heading", txt, 1)
      bold     == Unwrap(headings, 1, <<"*", "*">>)
      italic   == Unwrap(bold, 1, <<"*">>)
      bold2    == Unwrap(italic, 1, <<"_", "_">>)
      italic2  == Unwrap(bold2, 1, <<"_">>)
      code     == Unwrap(italic2, 1, <<"backtick">>)
      blocks   == DeleteFences(code, 1)
      bullets  == DeleteAtLineStarts("bullet", blocks, 1)
      numbers  == DeleteAtLineStarts("number", bullets, 1)
      quotes   == DeleteAtLineStarts("quote", numbers, 1)
      rules    == DeleteAtLineStarts("rule", quotes, 1)
      spaced   == CollapseNewlines(rules, 1)
  IN  RStrip(LStrip(spaced, Whitespace), Whitespace)

\* apply_profile with the newline appended whatever the text ends in.
ApplyProfile_AlwaysNewline(txt, profile) ==
  IF txt = <<>> THEN txt
  ELSE LET stripped == IF profile.strip_markdown THEN StripMarkdown(txt) ELSE txt
       IN  IF profile.add_trailing_newline THEN stripped \o <<"\n">> ELSE stripped

\* apply_profile (lines 199-224).
ApplyProfile(txt, profile) ==
  IF txt = <<>> THEN txt
  ELSE LET stripped == IF profile.strip_markdown THEN StripMarkdown(txt) ELSE txt
       IN  IF profile.add_trailing_newline /\ (stripped = <<>> \/ stripped[Len(stripped)] # "\n")
             THEN stripped \o <<"\n">>
             ELSE stripped

\* The pieces the texts given to the reducer are made of: a heading and a
\* list marker, an emphasis marker, a fence, a letter outside and a letter
\* inside code blocks, a newline.
MarkdownPieces ==
  { <<"#", " ">>, <<"-", " ">>, <<"*">>, Fence, <<"a">>, <<"c">>, <<"\n">> }

MarkdownTexts == TextsOf(MarkdownPieces, MaxTokens)

\* The strip_markdown and add_trailing_newline entries of a profile.
PostProcessing == [strip_markdown : BOOLEAN, add_trailing_newline : BOOLEAN]

\* apply_profile was not called.
NotApplied == [called |-> FALSE]

\* _strip_markdown is called on the text, or on what the call before it
\* returned.
StripMarkdownCall ==
  /\ Len(passes) < MaxPasses
  /\ passes' = Append(passes, StripMarkdown(IF passes = <<>> THEN src ELSE passes[Len(passes)]))
  /\ UNCHANGED <<src, applied>>
  /\ UNCHANGED <<session, detector, run, resolver, voice, offline>>

\* apply_profile is called on the text with a profile.
ApplyProfileCall(profile) ==
  /\ applied = NotApplied
  /\ applied' = [called |-> TRUE, profile |-> profile, result |-> ApplyProfile(src, profile)]
  /\ UNCHANGED <<src, passes>>
  /\ UNCHANGED <<session, detector, run, resolver, voice, offline>>

ReducerNext ==
  \/ StripMarkdownCall
  \/ \E profile \in PostProcessing : ApplyProfileCall(profile)

(***************************************************************************)
(* VoiceCommandProcessor (voice_commands.py)                               *)
(***************************************************************************)

\* COMMANDS (lines 11-54): the spoken phrase and what is written for it.
COMMANDS == <<
  << <<"atara", "shi", "i", "dan", "raku">>, <<"\n", "\n">> >>,
  << <<"dan", "raku", "ka", "e", "te">>, <<"\n", "\n">> >>,
  << <<"dan", "raku", "ka", "e">>, <<"\n", "\n">> >>,
  << <<"kai", "gyou", "shi", "te">>, <<"\n">> >>,
  << <<"kai", "gyou">>, <<"\n">> >>,
  << <<"oo", "mi", "da", "shi">>, <<"\n", "\n", "#", " ">> >>,
  << <<"mi", "da", "shi", "3">>, <<"\n", "\n", "#", "#", "#", " ">> >>,
  << <<"mi", "da", "shi", "2">>, <<"\n", "\n", "#", "#", " ">> >>,
  << <<"mi", "da", "shi", "1">>, <<"\n", "\n", "#", " ">> >>,
  << <<"mi", "da", "shi">>, <<"\n", "\n", "#", "#", " ">> >>,
  << <<"ko", "mi", "da", "shi">>, <<"\n", "\n", "#", "#", "#", " ">> >>,
  << <<"kajou_ka", "jou", "ga", "ki", "hira", "haji">>, <<"\n", "\n">> >>,
  << <<"tsugi", "no", "kou", "moku">>, <<"\n", "-", " ">> >>,
  << <<"kou", "moku">>, <<"\n", "-", " ">> >>,
  << <<"RI", "SU", "TO">>, <<"\n", "-", " ">> >>,
  << <<"KO", "CHOUON", "DO", "BU", "RO", "TSU", "KU", "hira", "haji">>, <<"\n", "backtick", "backtick", "backtick", "\n">> >>,
  << <<"KO", "CHOUON", "DO", "BU", "RO", "TSU", "KU", "shuu", "ryou">>, <<"\n", "backtick", "backtick", "backtick", "\n">> >>,
  << <<"KO", "CHOUON", "DO", "hira", "haji">>, <<"\n", "backtick", "backtick", "backtick", "\n">> >>,
  << <<"KO", "CHOUON", "DO", "shuu", "ryou">>, <<"\n", "backtick", "backtick", "backtick", "\n">> >>,
  << <<"I", "N", "RA", "I", "N", "KO", "CHOUON", "DO">>, <<"backtick">> >>,
  << <<"futo", "ji", "hira", "haji">>, <<"*", "*">> >>,
  << <<"futo", "ji", "shuu", "ryou">>, <<"*", "*">> >>,
  << <<"futo", "ji">>, <<"*", "*">> >>,
  << <<"sha", "tai", "hira", "haji">>, <<"*">> >>,
  << <<"sha", "tai", "shuu", "ryou">>, <<"*">> >>,
  << <<"sui", "hei", "sen">>, <<"\n", "\n", "-", "-", "-", "\n", "\n">> >>,
  << <<"ku", "gi", "ri", "sen">>, <<"\n", "\n", "-", "-", "-", "\n", "\n">> >>,
  << <<"in", "you", "hira", "haji">>, <<"\n", "\n", ">", " ">> >>,
  << <<"in", "you">>, <<"\n", ">", " ">> >>
>>

\* The characters of the delimiter class in the pattern of line 73: white
\* space, the ideographic and the full-width comma and full stop, and the
\* ASCII ones.
Delimiters == Whitespace \cup {"touten", "kuten", "zenkaku_comma", "zenkaku_period", ",", "."}

\* The commands whose phrase has n characters, then those with fewer: what
\* the stable sort of line 67 makes of a list whose longest phrase has n.
RECURSIVE LongestFirst(_, _)
LongestFirst(commands, n) ==
  IF n = 0 THEN <<>>
  ELSE SelectSeq(commands, LAMBDA c : Len(c[1]) = n) \o LongestFirst(commands, n - 1)

\* __init__ (lines 63-67): self._commands for the given custom_commands.
SortedCommands(custom) ==
  LET all == custom \o COMMANDS
      longest == CHOOSE n \in {Len(all[k][1]) : k \in 1..Len(all)} :
                   \A k \in 1..Len(all) : Len(all[k][1]) <= n
  IN  LongestFirst(all, longest)

\* The length of the match of the pattern of line 73 for cmd_text at
\* position i of s, 0 for none: the phrase stands at the start or behind a
\* delimiter, and a delimiter follows, which the match takes, or the end.
PatternMatchLen(s, i, cmd_text) ==
  IF /\ i = 1 \/ s[i - 1] \in Delimiters
     /\ StartsWith(s, i, cmd_text)
    THEN IF i + Len(cmd_text) > Len(s) THEN Len(cmd_text)
         ELSE IF s[i + Len(cmd_text)] \in Delimiters THEN Len(cmd_text) + 1
         ELSE 0
    ELSE 0

\* pattern.sub(replacement, s) from position i on (line 93): the leftmost
\* match is replaced and the scan goes on behind it.
RECURSIVE Substitute(_, _, _, _)
Substitute(s, i, cmd_text, replacement) ==
  LET found == {j \in i..Len(s) : PatternMatchLen(s, j, cmd_text) > 0}
  IN  IF found = {} THEN SubSeq(s, i, Len(s))
      ELSE LET j == Least(found)
           IN  SubSeq(s, i, j - 1) \o replacement
                 \o Substitute(s, j + PatternMatchLen(s, j, cmd_text), cmd_text, replacement)

\* How many matches the pattern of cmd_text has in s from position i on.
RECURSIVE Occurrences(_, _, _)
Occurrences(s, i, cmd_text) ==
  LET found == {j \in i..Len(s) : PatternMatchLen(s, j, cmd_text) > 0}
  IN  IF found = {} THEN 0
      ELSE 1 + Occurrences(s, Least(found) + PatternMatchLen(s, Least(found), cmd_text), cmd_text)

\* Lines 96-100: blank-line runs collapsed, leading newlines and trailing
\* white space removed.
Tidy(s) == RStrip(LStrip(CollapseNewlines(s, 1), {"\n"}), Whitespace)

\* The loop of lines 92-93 from the k-th pattern on: the k-th substitution
\* is finished (its result has a length) before the next pattern is tried.
RECURSIVE ApplyPatterns(_, _, _)
ApplyPatterns(commands, k, s) ==
  IF k > Len(commands) THEN s
  ELSE LET result == Substitute(s, 1, commands[k][1], commands[k][2])
       IN  IF Len(result) >= 0 THEN ApplyPatterns(commands, k + 1, result) ELSE s

\* process (lines 78-102).
Process(is_enabled, commands, txt) ==
  IF ~is_enabled \/ txt = <<>> THEN txt
  ELSE Tidy(ApplyPatterns(commands, 1, txt))

\* A command a user adds: a phrase that contains a built-in phrase, written
\* as text that contains that phrase as a word of its own.
UserCommand == << <<"atara", "shi", "i", "mi", "da", "shi">>, <<"\n", "mi", "da", "shi", " ">> >>

CustomTables == { <<>>, <<UserCommand>> }

\* The pieces the transcripts given to process are made of: built-in
\* phrases, one of which contains another, the user's phrase, a space and
\* a letter.
SpokenPieces ==
  { <<"ko", "mi", "da", "shi">>, <<"mi", "da", "shi">>,
    <<"I", "N", "RA", "I", "N", "KO", "CHOUON", "DO">>,
    UserCommand[1], <<" ">>, <<"x">> }

Transcripts == TextsOf(SpokenPieces, MaxWords)

\* process is called (lines 88-91).
ProcessCall ==
  /\ voice_pc = "idle"
  /\ vc_result' = heard
  /\ voice_pc' = (IF ~commands_enabled \/ heard = <<>> THEN "returned" ELSE "patterns")
  /\ UNCHANGED <<commands_enabled, custom_commands, heard, fired>>
  /\ UNCHANGED <<session, detector, run, resolver, reducer, offline>>

\* One turn of the loop of lines 92-93: the next pattern is substituted in
\* the text as the patterns before it left it.  `fired` counts the matches.
ProcessPattern ==
  /\ voice_pc = "patterns"
  /\ LET commands == SortedCommands(custom_commands)
         k == Len(fired) + 1
     IN  /\ vc_result' = Substitute(vc_result, 1, commands[k][1], commands[k][2])
         /\ fired' = Append(fired, Occurrences(vc_result, 1, commands[k][1]))
         /\ voice_pc' = (IF k = Len(commands) THEN "tidy" ELSE "patterns")
  /\ UNCHANGED <<commands_enabled, custom_commands, heard>>
  /\ UNCHANGED <<session, detector, run, resolver, reducer, offline>>

\* Lines 96-102.
ProcessTidy ==
  /\ voice_pc = "tidy"
  /\ vc_result' = Tidy(vc_result)
  /\ voice_pc' = "returned"
  /\ UNCHANGED <<commands_enabled, custom_commands, heard, fired>>
  /\ UNCHANGED <<session, detector, run, resolver, reducer, offline>>

VoiceNext ==
  \/ ProcessCall
  \/ ProcessPattern
  \/ ProcessTidy

(***************************************************************************)
(* AppProfileManager.get_profile (app_profiles.py 8-197)                   *)
(***************************************************************************)

\* DEFAULT_PROFILES (lines 8-116), in the order of the dict.
DEFAULT_PROFILES == <<
  [key |-> <<"G", "o", "o", "g", "l", "e", " ", "C", "h", "r", "o", "m", "e">>,
   name |-> "burauza", format_mode |-> "auto", strip_markdown |-> FALSE, add_trailing_newline |-> FALSE],
  [key |-> <<"S", "a", "f", "a", "r", "i">>,
   name |-> "Safari", format_mode |-> "auto", strip_markdown |-> FALSE, add_trailing_newline |-> FALSE],
  [key |-> <<"A", "r", "c">>,
   name |-> "Arc", format_mode |-> "auto", strip_markdown |-> FALSE, add_trailing_newline |-> FALSE],
  [key |-> <<"F", "i", "r", "e", "f", "o", "x">>,
   name |-> "Firefox", format_mode |-> "auto", strip_markdown |-> FALSE, add_trailing_newline |-> FALSE],
  [key |-> <<"S", "l", "a", "c", "k">>,
   name |-> "Slack", format_mode |-> "plain", strip_markdown |-> TRUE, add_trailing_newline |-> FALSE],
  [key |-> <<"L", "I", "N", "E">>,
   name |-> "LINE", format_mode |-> "plain", strip_markdown |-> TRUE, add_trailing_newline |-> FALSE],
  [key |-> <<"D", "i", "s", "c", "o", "r", "d">>,
   name |-> "Discord", format_mode |-> "auto", strip_markdown |-> FALSE, add_trailing_newline |-> FALSE],
  [key |-> <<"M", "e", "s", "s", "a", "g", "e", "s">>,
   name |-> "messeeji", format_mode |-> "plain", strip_markdown |-> TRUE, add_trailing_newline |-> FALSE],
  [key |-> <<"M", "a", "i", "l">>,
   name |-> "meeru", format_mode |-> "plain", strip_markdown |-> TRUE, add_trailing_newline |-> TRUE],
  [key |-> <<"N", "o", "t", "e", "s">>,
   name |-> "memo", format_mode |-> "structured", strip_markdown |-> FALSE, add_trailing_newline |-> TRUE],
  [key |-> <<"N", "o", "t", "i", "o", "n">>,
   name |-> "Notion", format_mode |-> "structured", strip_markdown |-> FALSE, add_trailing_newline |-> FALSE],
  [key |-> <<"O", "b", "s", "i", "d", "i", "a", "n">>,
   name |-> "Obsidian", format_mode |-> "structured", strip_markdown |-> FALSE, add_trailing_newline |-> TRUE],
  [key |-> <<"C", "o", "d", "e">>,
   name |-> "VS Code", format_mode |-> "auto", strip_markdown |-> FALSE, add_trailing_newline |-> TRUE],
  [key |-> <<"C", "u", "r", "s", "o", "r">>,
   name |-> "Cursor", format_mode |-> "auto", strip_markdown |-> FALSE, add_trailing_newline |-> TRUE],
  [key |-> <<"T", "e", "r", "m", "i", "n", "a", "l">>,
   name |-> "taaminaru", format_mode |-> "plain", strip_markdown |-> TRUE, add_trailing_newline |-> FALSE],
  [key |-> <<"i", "T", "e", "r", "m", "2">>,
   name |-> "iTerm2", format_mode |-> "plain", strip_markdown |-> TRUE, add_trailing_newline |-> FALSE]
>>

\* FALLBACK_PROFILE (lines 119-124).
FALLBACK_PROFILE ==
  [name |-> "deforuto", format_mode |-> "auto", strip_markdown |-> FALSE,
   add_trailing_newline |-> FALSE]

\* A dict that has no "_app_name" entry.
NoAppName == <<"none">>

\* str.lower() of one character and of a str.
UpperCase == <<"A", "B", "C", "D", "E", "F", "G", "H", "I", "J", "K", "L", "M",
               "N", "O", "P", "Q", "R", "S", "T", "U", "V", "W", "X", "Y", "Z">>
LowerCase == <<"a", "b", "c", "d", "e", "f", "g", "h", "i", "j", "k", "l", "m",
               "n", "o", "p", "q", "r", "s", "t", "u", "v", "w", "x", "y", "z">>

LowerChar(c) ==
  IF \E n \in 1..26 : UpperCase[n] = c
    THEN LowerCase[CHOOSE n \in 1..26 : UpperCase[n] = c]
    ELSE c

Lower(s) == [n \in 1..Len(s) |-> LowerChar(s[n])]

\* a in b, for two str.
Contains(b, a) == \E n \in 1..(Len(b) + 1) : StartsWith(b, n, a)

\* The loop of lines 190-193 from the k-th entry on: the first entry whose
\* key is in the name or has the name in it, letter case apart; 0 for none.
RECURSIVE FirstPartialMatch(_, _)
FirstPartialMatch(app_lower, k) ==
  IF k > Len(DEFAULT_PROFILES) THEN 0
  ELSE IF \/ Contains(app_lower, Lower(DEFAULT_PROFILES[k].key))
          \/ Contains(Lower(DEFAULT_PROFILES[k].key), app_lower)
    THEN k
  ELSE FirstPartialMatch(app_lower, k + 1)

\* Lines 190-193 with the key looked for in the name only.
MatchingEntry_KeyInNameOnly(app_name) ==
  IF \E k \in 1..Len(DEFAULT_PROFILES) : DEFAULT_PROFILES[k].key = app_name
    THEN CHOOSE k \in 1..Len(DEFAULT_PROFILES) : DEFAULT_PROFILES[k].key = app_name
    ELSE IF \E k \in 1..Len(DEFAULT_PROFILES) :
              Contains(Lower(app_name), Lower(DEFAULT_PROFILES[k].key))
      THEN CHOOSE k \in 1..Len(DEFAULT_PROFILES) :
             /\ Contains(Lower(app_name), Lower(DEFAULT_PROFILES[k].key))
             /\ \A j \in 1..(k - 1) :
                  ~Contains(Lower(app_name), Lower(DEFAULT_PROFILES[j].key))
      ELSE 0

\* Lines 183-193 with the entries that already carry an "_app_name"
\* preferred to the others, the last of them first.
MatchingEntry_AnnotatedPreferred(app_name) ==
  LET hits == {k \in 1..Len(DEFAULT_PROFILES) :
                 /\ stored_app_name[k] # NoAppName
                 /\ \/ Contains(Lower(app_name), Lower(DEFAULT_PROFILES[k].key))
                    \/ Contains(Lower(DEFAULT_PROFILES[k].key), Lower(app_name))}
  IN  IF hits # {} THEN CHOOSE k \in hits : \A j \in hits : k >= j
      ELSE IF \E k \in 1..Len(DEFAULT_PROFILES) : DEFAULT_PROFILES[k].key = app_name
        THEN CHOOSE k \in 1..Len(DEFAULT_PROFILES) : DEFAULT_PROFILES[k].key = app_name
        ELSE FirstPartialMatch(Lower(app_name), 1)

\* Lines 183-193: the entry of self._profiles get_profile returns for a
\* name that is not empty, 0 for none: the entry under that key, else the
\* first partial match.
MatchingEntry(app_name) ==
  IF \E k \in 1..Len(DEFAULT_PROFILES) : DEFAULT_PROFILES[k].key = app_name
    THEN CHOOSE k \in 1..Len(DEFAULT_PROFILES) : DEFAULT_PROFILES[k].key = app_name
    ELSE FirstPartialMatch(Lower(app_name), 1)

\* The dict stored as the k-th entry, as it is now: the entries of
\* DEFAULT_PROFILES and the "_app_name" get_profile wrote into it.
StoredProfile(k) ==
  [name |-> DEFAULT_PROFILES[k].name,
   format_mode |-> DEFAULT_PROFILES[k].format_mode,
   strip_markdown |-> DEFAULT_PROFILES[k].strip_markdown,
   add_trailing_newline |-> DEFAULT_PROFILES[k].add_trailing_newline,
   app_name |-> stored_app_name[k]]

\* FALLBACK_PROFILE as a dict of the same shape: it has no "_app_name".
SharedFallback ==
  [name |-> FALLBACK_PROFILE.name,
   format_mode |-> FALLBACK_PROFILE.format_mode,
   strip_markdown |-> FALLBACK_PROFILE.strip_markdown,
   add_trailing_newline |-> FALLBACK_PROFILE.add_trailing_newline,
   app_name |-> NoAppName]

\* The names get_profile is called with, or that get_active_app returns:
\* keys of the table, names that contain a key or are part of one or of
\* two, a name in another letter case, the empty name, an unknown name.
AppNames ==
  { <<"C", "o", "d", "e">>,
    <<"V", "i", "s", "u", "a", "l", " ", "S", "t", "u", "d", "i", "o", " ", "C", "o", "d", "e">>,
    <<"S", "l", "a", "c", "k">>,
    <<"s", "l", "a", "c", "k">>,
    <<"N", "o">>,
    <<"N", "o", "t", "i", "o", "n">>,
    <<>>,
    <<"X", "y", "z">> }

\* get_profile (lines 163-197).  What it returns is recorded with the
\* object it is: the k-th stored dict (k), FALLBACK_PROFILE itself (0) or
\* the dict made by the n-th call (-n), and with its contents at the
\* return.
GetProfile(app_name) ==
  /\ Len(returned) < MaxCalls
  /\ IF ~profiles_enabled \/ app_name = <<>>
       THEN /\ returned' = Append(returned,
                 [app_name |-> app_name, object |-> 0, contents |-> SharedFallback])
            /\ UNCHANGED stored_app_name
     ELSE IF MatchingEntry(app_name) # 0
       THEN LET k == MatchingEntry(app_name)
            IN  /\ stored_app_name' = [stored_app_name EXCEPT ![k] = app_name]
                /\ returned' = Append(returned,
                     [app_name |-> app_name, object |-> k,
                      contents |-> [StoredProfile(k) EXCEPT !.app_name = app_name]])
     ELSE /\ returned' = Append(returned,
               [app_name |-> app_name, object |-> 0 - (Len(returned) + 1),
                contents |-> [SharedFallback EXCEPT !.app_name = app_name]])
          /\ UNCHANGED stored_app_name
  /\ UNCHANGED profiles_enabled
  /\ UNCHANGED <<session, detector, run, reducer, voice, offline>>

ResolverNext == \E app_name \in AppNames : GetProfile(app_name)

(***************************************************************************)
(* OfflineFormatter.format_text (formatter.py 129-166)                     *)
(***************************************************************************)

\* The characters \s and str.strip() take in a str, of those used here:
\* the ideographic space is one of them.
UnicodeWhitespace == Whitespace \cup {"zenkaku_space"}

\* OfflineFormatter.FILLERS (lines 132-137), in the order of the source.
FILLERS == <<
  <<"e", "CHOUON", "to">>,
  <<"e", "tsu_small", "to">>,
  <<"e", "CHOUON">>,
  <<"a_hira", "no", "CHOUON">>,
  <<"a_hira", "no">>,
  <<"u_hira", "CHOUON", "n_hira">>,
  <<"u_hira", "n_hira">>,
  <<"ma", "a_small">>,
  <<"ma", "a_hira">>,
  <<"so", "no", "CHOUON">>,
  <<"na", "n_hira", "ka_hira">>,
  <<"na", "n_hira", "te", "i", "u_hira", "ka_hira">>,
  <<"ho", "ra">>,
  <<"a_hira", "CHOUON">>,
  <<"n_hira", "CHOUON">>,
  <<"n_hira", "to">>
>>

\* The fillers of n characters, then those with fewer, each group in the
\* order of FILLERS: sorted(self.FILLERS, key=len, reverse=True) of line 154
\* for a list whose longest word has n characters.
RECURSIVE FillersLongestFirst(_)
FillersLongestFirst(n) ==
  IF n = 0 THEN <<>>
  ELSE SelectSeq(FILLERS, LAMBDA f : Len(f) = n) \o FillersLongestFirst(n - 1)

SortedFillers ==
  FillersLongestFirst(CHOOSE n \in {Len(FILLERS[k]) : k \in 1..Len(FILLERS)} :
                        \A k \in 1..Len(FILLERS) : Len(FILLERS[k]) <= n)

\* The length of the match of the pattern of line 155 for filler at
\* position i of s, 0 if there is none.  On the left the pattern asks for
\* the start of the str or a whitespace character before i.  On the right
\* its first alternative, \s*, takes the whitespace that follows, and
\* matches when none does.
FillerMatchLen(s, i, filler) ==
  IF /\ i = 1 \/ s[i - 1] \in UnicodeWhitespace
     /\ StartsWith(s, i, filler)
    THEN Len(filler) + RunLength(s, i + Len(filler), UnicodeWhitespace)
    ELSE 0

\* re.sub(pattern, "", s) from position i on (line 156): the leftmost match
\* is deleted and the scan goes on behind it.
RECURSIVE DeleteFiller(_, _, _)
DeleteFiller(s, i, filler) ==
  LET found == {j \in i..Len(s) : FillerMatchLen(s, j, filler) > 0}
  IN  IF found = {} THEN SubSeq(s, i, Len(s))
      ELSE LET j == Least(found)
           IN  SubSeq(s, i, j - 1)
                 \o DeleteFiller(s, j + FillerMatchLen(s, j, filler), filler)

\* The loop of lines 154-156 from the k-th filler on.
RECURSIVE DeleteFillers(_, _, _)
DeleteFillers(fillers, k, s) ==
  IF k > Len(fillers) THEN s
  ELSE LET result == DeleteFiller(s, 1, fillers[k])
       IN  IF Len(result) >= 0 THEN DeleteFillers(fillers, k + 1, result) ELSE s

\* re.sub of line 159 from position i on: each run of spaces and
\* ideographic spaces becomes one space.
RECURSIVE CollapseSpaces(_, _)
CollapseSpaces(s, i) ==
  LET found == {j \in i..Len(s) : s[j] \in {" ", "zenkaku_space"}}
  IN  IF found = {} THEN SubSeq(s, i, Len(s))
      ELSE LET j == Least(found)
           IN  SubSeq(s, i, j - 1) \o <<" ">>
                 \o CollapseSpaces(s, j + RunLength(s, j, {" ", "zenkaku_space"}))

\* The length of the match of \n\s*\n\s*\n (line 161) at position i of s,
\* 0 if there is none: from a newline to the last newline of the
\* whitespace that follows it, when there are three newlines or more.
BlankLinesMatchLen(s, i) ==
  IF i <= Len(s) /\ s[i] = "\n"
    THEN LET last == i + RunLength(s, i, UnicodeWhitespace) - 1
             newlines == {j \in i..last : s[j] = "\n"}
         IN  IF Cardinality(newlines) >= 3
               THEN (CHOOSE j \in newlines : \A m \in newlines : m <= j) - i + 1
               ELSE 0
    ELSE 0

\* re.sub of line 161 from position i on.
RECURSIVE CollapseBlankLines(_, _)
CollapseBlankLines(s, i) ==
  LET found == {j \in i..Len(s) : BlankLinesMatchLen(s, j) > 0}
  IN  IF found = {} THEN SubSeq(s, i, Len(s))
      ELSE LET j == Least(found)
           IN  SubSeq(s, i, j - 1) \o <<"\n", "\n">>
                 \o CollapseBlankLines(s, j + BlankLinesMatchLen(s, j))

\* Lines 159-166: what format_text does with the text once the fillers
\* are out.
TidySpaces(s) ==
  RStrip(LStrip(CollapseBlankLines(CollapseSpaces(s, 1), 1), UnicodeWhitespace),
         UnicodeWhitespace)

\* format_text (lines 139-166); format_mode is not read.
FormatText(raw, format_mode) == TidySpaces(DeleteFillers(SortedFillers, 1, raw))

\* The pieces the texts given to format_text are made of: two fillers, one
\* the beginning of the other ("ano", "ano-"), the long vowel mark that
\* makes the one out of the other, a character of a word, and what may
\* stand around a word.
FillerPieces ==
  { <<"a_hira", "no">>, <<"CHOUON">>, <<"e", "CHOUON", "to">>, <<"hito">>,
    <<" ">>, <<"touten">>, <<"\n">> }

FillerTexts == TextsOf(FillerPieces, MaxPieces)

FormatModes == {"auto", "plain", "structured"}

\* A call of format_text on the text, as main.py 285-289 makes it.
FormatTextCall(format_mode) ==
  /\ ~offline_called
  /\ offline_called' = TRUE
  /\ offline_text' = FormatText(offline_raw, format_mode)
  /\ UNCHANGED offline_raw
  /\ UNCHANGED <<session, detector, run, resolver, reducer, voice>>

OfflineNext == \E format_mode \in FormatModes : FormatTextCall(format_mode)

\* The parts of _setup_hotkey (main.py 103-105) that set up the detector:
\* no key down, no tap pending.
DetectorInit ==
  /\ now = Epoch
  /\ rcmd_press_time = 0
  /\ rcmd_last_tap = 0
  /\ rcmd_was_pressed = FALSE
  /\ emitted = 0
  /\ last_kind = "none"
  /\ last_release = 0
  /\ quick_taps = 0
  /\ nEvents = 0

Sinks == {"clipboard", "paste", "save"}

\* No run of _process_audio has gone past transcription.
RunNotStarted ==
  /\ transcript = "none"
  /\ long = FALSE
  /\ text = <<>>
  /\ ran = {}
  /\ calls = [k \in Sinks |-> 0]
  /\ clipboard = {}
  /\ pasted = FALSE
  /\ saved = {}
  /\ notice = "none"
  /\ raw_text = <<>>
  /\ steps = <<>>
  /\ polls = 0

\* The configuration load_config gives when config.json sets nothing and
\* no API key is found: auto_paste and save_markdown on, no Formatter.
DefaultConfig ==
  /\ has_formatter = FALSE
  /\ auto_paste = TRUE
  /\ save_markdown = TRUE

\* "voice_commands_enabled" and "app_profiles_enabled" of DEFAULT_CONFIG
\* (config.py 22-23).
DefaultFeatures ==
  /\ commands_enabled = TRUE
  /\ profiles_enabled = TRUE

\* AppProfileManager.__init__ (app_profiles.py 130-139): the table is
\* DEFAULT_PROFILES, no dict of it has an "_app_name"; no call was made.
ProfileManagerInit ==
  /\ stored_app_name = [k \in 1..Len(DEFAULT_PROFILES) |-> NoAppName]
  /\ returned = <<>>

\* Neither _strip_markdown nor apply_profile was called.
NoTextGiven ==
  /\ src = <<>>
  /\ passes = <<>>
  /\ applied = NotApplied

\* VoiceCommandProcessor.__init__ as main.py 60-62 calls it, with no
\* custom commands; process was not called.
VoiceCommandsInit ==
  /\ custom_commands = <<>>
  /\ heard = <<>>
  /\ vc_result = <<>>
  /\ voice_pc = "idle"
  /\ fired = <<>>

\* OfflineFormatter() (main.py 57): format_text was not called.
OfflineFormatterInit ==
  /\ offline_raw = <<>>
  /\ offline_called = FALSE
  /\ offline_text = <<>>

\* VoiceNoteApp.__init__ and AudioRecorder.__init__: everything off, the
\* preload thread started and not yet run.
SessionInit ==
  /\ recording = FALSE
  /\ processing = FALSE
  /\ transcriber_loading = FALSE
  /\ transcriber_loaded = FALSE
  /\ title = ICON_IDLE
  /\ button = BTN_START
  /\ rec_recording = FALSE
  /\ rec_frames = <<>>
  /\ rec_stream = 0
  /\ openStreams = {}
  /\ activeStreams = {}
  /\ pc = [t \in Threads |-> "idle"]
  /\ audio_path = [t \in Threads |-> 0]
  /\ received = [t \in Threads |-> "none"]
  /\ job = [f \in FileIds |-> "none"]
  /\ notification = "none"
  /\ files = {}
  /\ fileFrames = [f \in FileIds |-> <<>>]
  /\ loaders = [s \in {"set_flag", "load", "finally"} |-> IF s = "set_flag" THEN 1 ELSE 0]
  /\ nTriggers = 0
  /\ nStarts = 0
  /\ nFiles = 0

\* The program when VoiceNoteApp() has returned.
Init ==
  /\ SessionInit
  /\ DetectorInit
  /\ DefaultConfig
  /\ DefaultFeatures
  /\ RunNotStarted
  /\ ProfileManagerInit
  /\ NoTextGiven
  /\ VoiceCommandsInit
  /\ OfflineFormatterInit

(***************************************************************************)
(* toggle_recording (main.py 198-215)                                      *)
(***************************************************************************)

\* The session as a trigger arriving on thread t finds it (_processing is
\* false): Idle or Capturing when no other handler is mid-way and the flag
\* and the recorder agree, else unsettled.  Idle is told apart as
\* "IdleNoData" when captures were made and none produced a file.  Kept
\* until the handler has picked its branch (line 212), for the properties
\* below; the program does not read it.
PhaseSeenBy(t) ==
  IF \E u \in Threads \ {t} : pc[u] # "idle" THEN "unsettled"
  ELSE IF ~recording /\ ~rec_recording /\ openStreams = {}
    THEN (IF nStarts >= 1 /\ nFiles = 0 THEN "IdleNoData" ELSE "Idle")
  ELSE IF recording /\ rec_recording /\ openStreams # {} THEN "Capturing"
  ELSE "unsettled"

\* The handler of thread t returns.
Return(t) ==
  /\ pc' = [pc EXCEPT ![t] = "idle"]
  /\ received' = [received EXCEPT ![t] = "none"]

\* The handler of thread t goes on to its statement at `to`.
Goto(t, to) ==
  /\ pc' = [pc EXCEPT ![t] = to]
  /\ received' = received

\* toggle_recording without the guard of line 200: the handler goes on
\* whatever _processing is.
ToggleCheckProcessing_Unguarded(t) ==
  /\ pc[t] = "idle"
  /\ nTriggers < MaxTriggers
  /\ pc' = [pc EXCEPT ![t] = "check_loading"]
  /\ received' = [received EXCEPT ![t] = PhaseSeenBy(t)]
  /\ nTriggers' = nTriggers + 1
  /\ UNCHANGED <<ctl, ui, recorder, audio_path, jobs, fs, ldr>>
  /\ UNCHANGED side

\* Line 200: a trigger arrives and the handler reads _processing.  When it
\* is set the handler notifies and returns (201-204).
ToggleCheckProcessing(t) ==
  /\ pc[t] = "idle"
  /\ nTriggers < MaxTriggers
  /\ IF processing
       THEN /\ notification' = "busy"
            /\ UNCHANGED <<pc, received, nTriggers>>
       ELSE /\ pc' = [pc EXCEPT ![t] = "check_loading"]
            /\ received' = [received EXCEPT ![t] = PhaseSeenBy(t)]
            /\ nTriggers' = nTriggers + 1
            /\ notification' = notification
  /\ UNCHANGED <<ctl, ui, recorder, audio_path, job, fs, ldr>>
  /\ UNCHANGED side

\* Line 206: the handler reads _transcriber_loading and returns when set.
ToggleCheckLoading(t) ==
  /\ pc[t] = "check_loading"
  /\ IF transcriber_loading
       THEN /\ Return(t)
            /\ notification' = "loading"
       ELSE /\ Goto(t, "check_recording")
            /\ notification' = notification
  /\ UNCHANGED <<ctl, ui, recorder, audio_path, nTriggers, job, fs, ldr>>
  /\ UNCHANGED side

\* Line 212: the handler reads _recording and picks _start_recording or
\* _stop_recording.
ToggleCheckRecording(t) ==
  /\ pc[t] = "check_recording"
  /\ pc' = [pc EXCEPT ![t] = IF ~recording THEN "start_flag" ELSE "stop_flag"]
  /\ received' = [received EXCEPT ![t] = "none"]
  /\ UNCHANGED <<ctl, ui, recorder, audio_path, nTriggers, jobs, fs, ldr>>
  /\ UNCHANGED side

(***************************************************************************)
(* _start_recording (main.py 217-223)                                      *)
(***************************************************************************)

\* Line 219.
StartSetFlag(t) ==
  /\ pc[t] = "start_flag"
  /\ recording' = TRUE
  /\ Goto(t, "start_ui")
  /\ UNCHANGED <<processing, transcriber_loading, transcriber_loaded, ui, recorder,
                 audio_path, nTriggers, jobs, fs, ldr>>
  /\ UNCHANGED side

\* Lines 220-222.
StartSetUi(t) ==
  /\ pc[t] = "start_ui"
  /\ title' = ICON_RECORDING
  /\ button' = BTN_STOP
  /\ Goto(t, "start_recorder")
  /\ UNCHANGED <<ctl, recorder, audio_path, nTriggers, jobs, fs, ldr>>
  /\ UNCHANGED side

\* AudioRecorder.start without the guard of recorder.py line 37: a stream
\* is opened whether or not one is open already.
RecorderStart_Unguarded(opened, started) ==
  /\ rec_frames' = <<>>
  /\ rec_recording' = TRUE
  /\ nStarts' = nStarts + 1
  /\ IF opened
       THEN /\ rec_stream' = nStarts + 1
            /\ openStreams' = openStreams \cup {nStarts + 1}
            /\ activeStreams' = IF started THEN activeStreams \cup {nStarts + 1}
                                           ELSE activeStreams
       ELSE UNCHANGED <<rec_stream, openStreams, activeStreams>>

\* AudioRecorder.start (recorder.py 34-47), under AudioRecorder._lock.
\* `opened` is whether sd.InputStream(...) returned a stream, `started`
\* whether stream.start() returned; either may raise, and the exception
\* leaves start() with _recording already set.
RecorderStart(opened, started) ==
  IF rec_recording
    THEN UNCHANGED recorder
    ELSE /\ rec_frames' = <<>>
         /\ rec_recording' = TRUE
         /\ nStarts' = nStarts + 1
         /\ IF opened
              THEN /\ rec_stream' = nStarts + 1
                   /\ openStreams' = openStreams \cup {nStarts + 1}
                   /\ activeStreams' = IF started THEN activeStreams \cup {nStarts + 1}
                                                  ELSE activeStreams
              ELSE UNCHANGED <<rec_stream, openStreams, activeStreams>>

\* _start_recording without its line 223: the handler returns without
\* calling the recorder.
StartCallRecorder_NoCall(t) ==
  /\ pc[t] = "start_recorder"
  /\ Return(t)
  /\ UNCHANGED <<ctl, ui, recorder, audio_path, nTriggers, jobs, fs, ldr>>
  /\ UNCHANGED side

\* Line 223: self.recorder.start().  An exception from it leaves the
\* handler (and toggle_recording) at once.
StartCallRecorder(t) ==
  /\ pc[t] = "start_recorder"
  /\ \E opened \in BOOLEAN, started \in BOOLEAN :
       /\ (~opened => ~started)
       /\ RecorderStart(opened, started)
  /\ Return(t)
  /\ UNCHANGED <<ctl, ui, audio_path, nTriggers, jobs, fs, ldr>>
  /\ UNCHANGED side

\* AudioRecorder._audio_callback (recorder.py 27-32), called by an active
\* stream s.
AudioCallback(s) ==
  /\ s \in activeStreams
  /\ rec_recording
  /\ Len(rec_frames) < MaxFrames
  /\ rec_frames' = Append(rec_frames, s)
  /\ UNCHANGED <<ctl, ui, rec_recording, rec_stream, openStreams, activeStreams,
                 nStarts, thr, jobs, fs, ldr>>
  /\ UNCHANGED side

(***************************************************************************)
(* _stop_recording (main.py 225-245) and AudioRecorder.stop                *)
(***************************************************************************)

\* Line 227.
StopSetFlag(t) ==
  /\ pc[t] = "stop_flag"
  /\ recording' = FALSE
  /\ Goto(t, "stop_ui")
  /\ UNCHANGED <<processing, transcriber_loading, transcriber_loaded, ui, recorder,
                 audio_path, nTriggers, jobs, fs, ldr>>
  /\ UNCHANGED side

\* Lines 228-230.
StopSetUi(t) ==
  /\ pc[t] = "stop_ui"
  /\ title' = ICON_PROCESSING
  /\ button' = BTN_BUSY
  /\ Goto(t, "stop_recorder")
  /\ UNCHANGED <<ctl, recorder, audio_path, nTriggers, jobs, fs, ldr>>
  /\ UNCHANGED side

\* AudioRecorder.stop, the part under the lock (recorder.py 54-61) once
\* _recording was found set: the flag is cleared and the stream stopped,
\* closed and forgotten.
RecorderStopLocked ==
  /\ rec_recording' = FALSE
  /\ rec_stream' = 0
  /\ openStreams' = openStreams \ {rec_stream}
  /\ activeStreams' = activeStreams \ {rec_stream}
  /\ UNCHANGED <<rec_frames, nStarts>>

\* Line 232: audio_path = self.recorder.stop(), up to the end of the
\* locked part.  stop() returns "" at once when the recorder is not
\* recording (recorder.py 55-56).
StopCallRecorder(t) ==
  /\ pc[t] = "stop_recorder"
  /\ IF ~rec_recording
       THEN /\ UNCHANGED recorder
            /\ Goto(t, "stop_nodata")
       ELSE /\ RecorderStopLocked
            /\ Goto(t, "stop_frames")
  /\ UNCHANGED <<ctl, ui, audio_path, nTriggers, jobs, fs, ldr>>
  /\ UNCHANGED side

\* recorder.py 63-64, outside the lock: no frames, stop() returns "".
StopCheckFrames(t) ==
  /\ pc[t] = "stop_frames"
  /\ Goto(t, IF rec_frames = <<>> THEN "stop_nodata" ELSE "stop_write")
  /\ UNCHANGED <<ctl, ui, recorder, audio_path, nTriggers, jobs, fs, ldr>>
  /\ UNCHANGED side

\* recorder.py 67-82, outside the lock: _frames is read again and written
\* to a new temporary file, whose name stop() returns.  np.concatenate
\* raises on an empty list and tempfile.NamedTemporaryFile when no file
\* can be made (`created` is false), and the exception leaves
\* _stop_recording, which has no handler for it.
StopWriteFile(t) ==
  /\ pc[t] = "stop_write"
  /\ \E created \in BOOLEAN :
       IF rec_frames = <<>> \/ ~created
         THEN /\ Return(t)
              /\ UNCHANGED <<audio_path, fs>>
         ELSE /\ nFiles' = nFiles + 1
              /\ files' = files \cup {nFiles + 1}
              /\ fileFrames' = [fileFrames EXCEPT ![nFiles + 1] = rec_frames]
              /\ audio_path' = [audio_path EXCEPT ![t] = nFiles + 1]
              /\ Goto(t, "stop_set_processing")
  /\ UNCHANGED <<ctl, ui, recorder, nTriggers, jobs, ldr>>
  /\ UNCHANGED side

\* The no-data path entering Processing all the same: _processing is set
\* although no file was written.
StopNoData_SetsProcessing(t) ==
  /\ pc[t] = "stop_nodata"
  /\ processing' = TRUE
  /\ title' = ICON_IDLE
  /\ button' = BTN_START
  /\ Return(t)
  /\ UNCHANGED <<recording, transcriber_loading, transcriber_loaded, recorder,
                 audio_path, nTriggers, jobs, fs, ldr>>
  /\ UNCHANGED side

\* Lines 234-238: nothing was recorded.
StopNoData(t) ==
  /\ pc[t] = "stop_nodata"
  /\ title' = ICON_IDLE
  /\ button' = BTN_START
  /\ Return(t)
  /\ UNCHANGED <<ctl, recorder, audio_path, nTriggers, jobs, fs, ldr>>
  /\ UNCHANGED side

\* Line 241.
StopSetProcessing(t) ==
  /\ pc[t] = "stop_set_processing"
  /\ processing' = TRUE
  /\ Goto(t, "stop_spawn")
  /\ UNCHANGED <<recording, transcriber_loading, transcriber_loaded, ui, recorder,
                 audio_path, nTriggers, jobs, fs, ldr>>
  /\ UNCHANGED side

\* Lines 242-245: the _process_audio thread of audio_path is started.
StopSpawn(t) ==
  /\ pc[t] = "stop_spawn"
  /\ job' = [job EXCEPT ![audio_path[t]] = "load"]
  /\ audio_path' = [audio_path EXCEPT ![t] = 0]
  /\ Return(t)
  /\ UNCHANGED <<ctl, ui, recorder, nTriggers, notification, fs, ldr>>
  /\ UNCHANGED side

(***************************************************************************)
(* _process_audio (main.py 247-334), one thread per temporary file f       *)
(***************************************************************************)

\* The try block is left for the finally block: by the early return of
\* line 265, by an exception caught at line 323 or at its end.
JobLeaveTry(f) ==
  /\ job' = [job EXCEPT ![f] = "finally_flag"]

\* Lines 251-256: the model is loaded here when no loaded transcriber
\* exists; Transcriber(...) replaces the old one before load_model runs,
\* and load_model may raise.
JobLoadModel(f) ==
  /\ job[f] = "load"
  /\ IF transcriber_loaded
       THEN /\ job' = [job EXCEPT ![f] = "transcribe"]
            /\ UNCHANGED transcriber_loaded
       ELSE \E loaded \in BOOLEAN :
              /\ transcriber_loaded' = loaded
              /\ IF loaded
                   THEN job' = [job EXCEPT ![f] = "transcribe"]
                   ELSE JobLeaveTry(f)
  /\ UNCHANGED <<recording, processing, transcriber_loading, ui, recorder, thr,
                 notification, fs, ldr>>
  /\ UNCHANGED side

\* _process_audio without its finally block on the early return: a blank
\* transcript ends the thread at line 265.
JobTranscribe_ReturnSkipsFinally(f) ==
  /\ job[f] = "transcribe"
  /\ \E result \in {"text", "blank", "raise"} :
       IF result = "text" THEN job' = [job EXCEPT ![f] = "pipeline"]
       ELSE IF result = "blank" THEN job' = [job EXCEPT ![f] = "done"]
       ELSE JobLeaveTry(f)
  /\ UNCHANGED <<ctl, ui, recorder, thr, notification, fs, ldr>>
  /\ UNCHANGED side

\* Lines 258-265: transcribe returns text, returns a blank transcript
\* (the early return of line 265) or raises.
JobTranscribe(f) ==
  /\ job[f] = "transcribe"
  /\ \E result \in {"text", "blank", "raise"} :
       IF result = "text"
         THEN job' = [job EXCEPT ![f] = "pipeline"]
         ELSE JobLeaveTry(f)
  /\ UNCHANGED <<ctl, ui, recorder, thr, notification, fs, ldr>>
  /\ UNCHANGED side

\* Lines 267-321: command transform, formatting, post-processing and
\* output, which end normally or with an exception caught at line 323.
JobPipeline(f) ==
  /\ job[f] = "pipeline"
  /\ JobLeaveTry(f)
  /\ UNCHANGED <<ctl, ui, recorder, thr, notification, fs, ldr>>
  /\ UNCHANGED side

\* Line 330.
JobFinallyFlag(f) ==
  /\ job[f] = "finally_flag"
  /\ processing' = FALSE
  /\ job' = [job EXCEPT ![f] = "finally_ui"]
  /\ UNCHANGED <<recording, transcriber_loading, transcriber_loaded, ui, recorder,
                 thr, notification, fs, ldr>>
  /\ UNCHANGED side

\* Lines 331-332.
JobFinallyUi(f) ==
  /\ job[f] = "finally_ui"
  /\ title' = ICON_IDLE
  /\ button' = BTN_START
  /\ job' = [job EXCEPT ![f] = "cleanup"]
  /\ UNCHANGED <<ctl, recorder, thr, notification, fs, ldr>>
  /\ UNCHANGED side

\* Line 334 and AudioRecorder.cleanup (recorder.py 96-103): the file is
\* unlinked and the thread ends.
JobCleanup(f) ==
  /\ job[f] = "cleanup"
  /\ files' = files \ {f}
  /\ fileFrames' = [fileFrames EXCEPT ![f] = <<>>]
  /\ job' = [job EXCEPT ![f] = "done"]
  /\ UNCHANGED <<ctl, ui, recorder, thr, notification, nFiles, ldr>>
  /\ UNCHANGED side

(***************************************************************************)
(* Model preloading (main.py 177-191, 396-407)                             *)
(***************************************************************************)

LiveLoaders == loaders["set_flag"] + loaders["load"] + loaders["finally"]

\* Line 179.
LoaderSetFlag ==
  /\ loaders["set_flag"] > 0
  /\ transcriber_loading' = TRUE
  /\ loaders' = [loaders EXCEPT !["set_flag"] = @ - 1, !["load"] = @ + 1]
  /\ UNCHANGED <<recording, processing, transcriber_loaded, ui, recorder, thr, jobs, fs>>
  /\ UNCHANGED side

\* Lines 181-189: a new Transcriber replaces the old one and its model is
\* loaded, or load_model raises.
LoaderLoad ==
  /\ loaders["load"] > 0
  /\ \E loaded \in BOOLEAN : transcriber_loaded' = loaded
  /\ loaders' = [loaders EXCEPT !["load"] = @ - 1, !["finally"] = @ + 1]
  /\ UNCHANGED <<recording, processing, transcriber_loading, ui, recorder, thr, jobs, fs>>
  /\ UNCHANGED side

\* Lines 190-191: the flag is cleared and the thread ends.
LoaderFinally ==
  /\ loaders["finally"] > 0
  /\ transcriber_loading' = FALSE
  /\ loaders' = [loaders EXCEPT !["finally"] = @ - 1]
  /\ UNCHANGED <<recording, processing, transcriber_loaded, ui, recorder, thr, jobs, fs>>
  /\ UNCHANGED side

\* preload_model (main.py 396-407), a menu callback: a preload thread is
\* started unless the model is loaded or being loaded.
PreloadModel ==
  /\ pc["menu"] = "idle"
  /\ LiveLoaders < MaxLoaders
  /\ ~transcriber_loaded
  /\ ~transcriber_loading
  /\ loaders' = [loaders EXCEPT !["set_flag"] = @ + 1]
  /\ UNCHANGED <<ctl, ui, recorder, thr, jobs, fs>>
  /\ UNCHANGED side

(***************************************************************************)
(* The program                                                             *)
(***************************************************************************)

Next ==
  \/ \E t \in Threads : ToggleCheckProcessing(t)
  \/ \E t \in Threads : ToggleCheckLoading(t)
  \/ \E t \in Threads : ToggleCheckRecording(t)
  \/ \E t \in Threads : StartSetFlag(t)
  \/ \E t \in Threads : StartSetUi(t)
  \/ \E t \in Threads : StartCallRecorder(t)
  \/ \E s \in StreamIds : AudioCallback(s)
  \/ \E t \in Threads : StopSetFlag(t)
  \/ \E t \in Threads : StopSetUi(t)
  \/ \E t \in Threads : StopCallRecorder(t)
  \/ \E t \in Threads : StopCheckFrames(t)
  \/ \E t \in Threads : StopWriteFile(t)
  \/ \E t \in Threads : StopNoData(t)
  \/ \E t \in Threads : StopSetProcessing(t)
  \/ \E t \in Threads : StopSpawn(t)
  \/ \E f \in FileIds : JobLoadModel(f)
  \/ \E f \in FileIds : JobTranscribe(f)
  \/ \E f \in FileIds : JobPipeline(f)
  \/ \E f \in FileIds : JobFinallyFlag(f)
  \/ \E f \in FileIds : JobFinallyUi(f)
  \/ \E f \in FileIds : JobCleanup(f)
  \/ LoaderSetFlag
  \/ LoaderLoad
  \/ LoaderFinally
  \/ PreloadModel

Spec == Init /\ [][Next]_vars

(***************************************************************************)
(* The double-tap detector (main.py 103-143)                               *)
(***************************************************************************)

\* The detector without line 133: every release is taken as a tap.
ReleaseKind_NoThreshold(held, since) ==
  IF since < DOUBLE_TAP_INTERVAL THEN "double" ELSE "tap"

\* The detector with <= for < in line 135.
ReleaseKind_IntervalIncluded(held, since) ==
  IF held < TAP_THRESHOLD
    THEN (IF since <= DOUBLE_TAP_INTERVAL THEN "double" ELSE "tap")
    ELSE "hold"

\* What a release that ends a press held for `held` ms, `since` ms after
\* the time in _rcmd_last_tap, is to the detector (lines 132-140).
ReleaseKind(held, since) ==
  IF held < TAP_THRESHOLD
    THEN (IF since < DOUBLE_TAP_INTERVAL THEN "double" ELSE "tap")
    ELSE "hold"

\* The detector without line 137: the second tap of a double-tap stays
\* pending as a first tap.
LastTapAfter_DoubleStaysPending(kind, at, pending) ==
  IF kind \in {"double", "tap"} THEN at ELSE pending

\* _rcmd_last_tap after a release of that kind at time `at` (lines 137 and
\* 140; a long hold leaves it as it was).
LastTapAfter(kind, at, pending) ==
  IF kind = "double" THEN 0
  ELSE IF kind = "tap" THEN at
  ELSE pending

\* flags_changed_callback (lines 122-143): a flags-changed event arrives
\* dt ms after the previous one, with the right Command key down or up.
\* The call of toggle_recording (line 138) is counted in `emitted`.
FlagsChanged(rcmd_pressed, dt) ==
  /\ nEvents < MaxEvents
  /\ nEvents' = nEvents + 1
  /\ now' = now + dt
  /\ IF rcmd_pressed /\ ~rcmd_was_pressed
       THEN /\ rcmd_press_time' = now'
            /\ UNCHANGED <<rcmd_last_tap, emitted, last_kind, last_release, quick_taps>>
     ELSE IF ~rcmd_pressed /\ rcmd_was_pressed
       THEN LET kind == ReleaseKind(now' - rcmd_press_time, now' - rcmd_last_tap)
            IN  /\ rcmd_last_tap' = LastTapAfter(kind, now', rcmd_last_tap)
                /\ emitted' = (IF kind = "double" THEN emitted + 1 ELSE emitted)
                /\ last_kind' = kind
                /\ last_release' = now'
                /\ quick_taps' =
                     (IF /\ quick_taps >= 0
                         /\ now' - rcmd_press_time < TAP_THRESHOLD
                         /\ (quick_taps = 0 \/ now' - last_release < DOUBLE_TAP_INTERVAL)
                        THEN quick_taps + 1
                        ELSE -1)
                /\ UNCHANGED rcmd_press_time
     ELSE UNCHANGED <<rcmd_press_time, rcmd_last_tap, emitted, last_kind,
                      last_release, quick_taps>>
  /\ rcmd_was_pressed' = rcmd_pressed
  /\ UNCHANGED <<session, run, resolver, reducer, voice, offline>>

GestureNext == \E rcmd_pressed \in BOOLEAN, dt \in Delays : FlagsChanged(rcmd_pressed, dt)

\* The detector alone: key events arrive and nothing else happens.
GestureSpec == Init /\ [][GestureNext]_vars

(***************************************************************************)
(* One run of _process_audio, step by step (main.py 247-334)               *)
(***************************************************************************)

\* The session when the job of the first recording has its model loaded
\* and is about to transcribe (line 258): one capture was made and stopped,
\* its file written, _processing set, the preload thread done.
RunSessionInit ==
  /\ recording = FALSE
  /\ processing = TRUE
  /\ transcriber_loading = FALSE
  /\ transcriber_loaded = TRUE
  /\ title = ICON_PROCESSING
  /\ button = BTN_BUSY
  /\ rec_recording = FALSE
  /\ rec_frames = <<1>>
  /\ rec_stream = 0
  /\ openStreams = {}
  /\ activeStreams = {}
  /\ pc = [t \in Threads |-> "idle"]
  /\ audio_path = [t \in Threads |-> 0]
  /\ received = [t \in Threads |-> "none"]
  /\ job = [f \in FileIds |-> IF f = 1 THEN "transcribe" ELSE "none"]
  /\ notification = "none"
  /\ files = {1}
  /\ fileFrames = [f \in FileIds |-> IF f = 1 THEN <<1>> ELSE <<>>]
  /\ loaders = [s \in {"set_flag", "load", "finally"} |-> 0]
  /\ nTriggers = 2
  /\ nStarts = 1
  /\ nFiles = 1

\* That session under every configuration: with or without a Formatter
\* (main.py 47-54), auto_paste and save_markdown on or off, voice commands
\* and application profiles enabled or not (main.py 60-67).
RunInit ==
  /\ RunSessionInit
  /\ DetectorInit
  /\ has_formatter \in BOOLEAN
  /\ auto_paste \in BOOLEAN
  /\ save_markdown \in BOOLEAN
  /\ commands_enabled \in BOOLEAN
  /\ profiles_enabled \in BOOLEAN
  /\ RunNotStarted
  /\ ProfileManagerInit
  /\ NoTextGiven
  /\ VoiceCommandsInit
  /\ OfflineFormatterInit

\* A text of n letters.
Pad(n) == [k \in 1..n |-> "a"]

\* The texts transcribe returns when there is speech: letters, and behind
\* them a word that is no command, a command that makes the text shorter
\* ("kaigyou shite", written as a newline) or one that makes it longer
\* ("suiheisen", written as a rule), with lengths on both sides of
\* RemoteMinLength before and after the commands are applied.
SpeechTexts ==
  { Pad(n) \o <<" ">> \o phrase \o <<" ", "x">> :
      n \in {RemoteMinLength - 7, RemoteMinLength - 4},
      phrase \in { <<"x">>, <<"kai", "gyou", "shi", "te">>, <<"sui", "hei", "sen">> } }

\* What transcribe can return for each kind of result.
TranscriptTexts(kind) ==
  IF kind = "speech" THEN SpeechTexts
  ELSE IF kind = "whitespace" THEN {<<" ">>}
  ELSE IF kind = "empty" THEN {<<>>}
  ELSE {raw_text}

\* The run of file f goes on to its step `to`.
RunGoto(f, to) == job' = [job EXCEPT ![f] = to]

\* What is left alone by a step of the run that only moves text along.
RunFrame ==
  UNCHANGED <<ctl, ui, recorder, thr, notification, fs, ldr, detector,
              has_formatter, auto_paste, save_markdown, resolver, reducer, voice,
              offline>>

\* Lines 258-265 with only "" taken as a blank transcript (no strip()).
RunTranscribe_NoStrip(f) ==
  /\ job[f] = "transcribe"
  /\ \E result \in {"speech", "empty", "whitespace", "raise"} :
       /\ transcript' = (IF result = "raise" THEN transcript ELSE result)
       /\ raw_text' \in TranscriptTexts(result)
       /\ notice' = (IF result = "empty" THEN "no_speech" ELSE notice)
       /\ RunGoto(f, IF result \in {"speech", "whitespace"} THEN "voice_cmd"
                     ELSE IF result = "empty" THEN "finally_flag"
                     ELSE "except")
  /\ UNCHANGED <<long, text, ran, calls, clipboard, pasted, saved, steps, polls>>
  /\ RunFrame

\* Lines 258-265: transcribe returns speech, returns "" or only white
\* space (the notification and early return of 262-265), or raises.
RunTranscribe(f) ==
  /\ job[f] = "transcribe"
  /\ \E result \in {"speech", "empty", "whitespace", "raise"} :
       /\ transcript' = (IF result = "raise" THEN transcript ELSE result)
       /\ raw_text' \in TranscriptTexts(result)
       /\ notice' = (IF result \in {"empty", "whitespace"} THEN "no_speech" ELSE notice)
       /\ RunGoto(f, IF result = "speech" THEN "voice_cmd"
                     ELSE IF result = "raise" THEN "except"
                     ELSE "finally_flag")
  /\ UNCHANGED <<long, text, ran, calls, clipboard, pasted, saved, steps, polls>>
  /\ RunFrame

\* Line 268: the voice commands are applied; `long` is what line 279 will
\* find when it takes the length of the text that results.
RunVoiceCommands(f) ==
  /\ job[f] = "voice_cmd"
  /\ ran' = ran \cup {"voice_cmd"}
  /\ steps' = Append(steps, "voice_cmd")
  /\ text' = Append(text, "voice_cmd")
  /\ long' = (Len(Process(commands_enabled, SortedCommands(<<>>), raw_text)) >= RemoteMinLength)
  /\ RunGoto(f, "get_profile")
  /\ UNCHANGED <<transcript, calls, clipboard, pasted, saved, notice, raw_text, polls>>
  /\ RunFrame

\* Lines 271-275 with the active application asked for a second time.
RunGetProfile_PollsTwice(f) ==
  /\ job[f] = "get_profile"
  /\ ran' = ran \cup {"get_profile"}
  /\ steps' = Append(steps, "get_profile")
  /\ polls' = (IF profiles_enabled THEN polls + 2 ELSE polls)
  /\ RunGoto(f, "format")
  /\ UNCHANGED <<transcript, long, text, calls, clipboard, pasted, saved, notice, raw_text>>
  /\ RunFrame

\* Lines 271-275: the active application's profile is looked up.
\* get_profile() is called with no name, so it calls get_active_app
\* (app_profiles.py 176-177), unless profiles are not enabled (173-174).
RunGetProfile(f) ==
  /\ job[f] = "get_profile"
  /\ ran' = ran \cup {"get_profile"}
  /\ steps' = Append(steps, "get_profile")
  /\ polls' = (IF profiles_enabled THEN polls + 1 ELSE polls)
  /\ RunGoto(f, "format")
  /\ UNCHANGED <<transcript, long, text, calls, clipboard, pasted, saved, notice, raw_text>>
  /\ RunFrame

\* Formatter.format_text (formatter.py 69-126) on a non-blank text.  The
\* client is made outside the try block (line 87), so a failure there
\* raises to the caller; a failed API call (104-120) and a response with no
\* text (103) give the text back as it came; a response of white space
\* gives "" (103: response.text.strip()).
RemoteFormat(outcome) ==
  IF outcome = "formatted" THEN Append(text, "remote")
  ELSE IF outcome = "blank_response" THEN <<"blank">>
  ELSE text

\* Lines 279-289 with the remote formatter used whenever there is one.
RunFormat_NoLengthTest(f) ==
  /\ job[f] = "format"
  /\ steps' = Append(steps, "format")
  /\ IF has_formatter
       THEN /\ ran' = ran \cup {"format_remote"}
            /\ \E outcome \in {"formatted", "client_error", "api_error",
                               "no_response", "blank_response"} :
                 /\ text' = RemoteFormat(outcome)
                 /\ RunGoto(f, IF outcome = "client_error" THEN "except"
                               ELSE "apply_profile")
       ELSE /\ ran' = ran \cup {"format_offline"}
            /\ text' = Append(text, "offline")
            /\ RunGoto(f, "apply_profile")
  /\ UNCHANGED <<transcript, long, calls, clipboard, pasted, saved, notice, raw_text, polls>>
  /\ RunFrame

\* Lines 279-289: the remote formatter when there is one and the text has
\* 100 characters or more, else the offline formatter.
RunFormat(f) ==
  /\ job[f] = "format"
  /\ steps' = Append(steps, "format")
  /\ IF has_formatter /\ long
       THEN /\ ran' = ran \cup {"format_remote"}
            /\ \E outcome \in {"formatted", "client_error", "api_error",
                               "no_response", "blank_response"} :
                 /\ text' = RemoteFormat(outcome)
                 /\ RunGoto(f, IF outcome = "client_error" THEN "except"
                               ELSE "apply_profile")
       ELSE /\ ran' = ran \cup {"format_offline"}
            /\ text' = Append(text, "offline")
            /\ RunGoto(f, "apply_profile")
  /\ UNCHANGED <<transcript, long, calls, clipboard, pasted, saved, notice, raw_text, polls>>
  /\ RunFrame

\* Lines 292-294.
RunApplyProfile(f) ==
  /\ job[f] = "apply_profile"
  /\ ran' = ran \cup {"apply_profile"}
  /\ steps' = Append(steps, "apply_profile")
  /\ text' = Append(text, "profile")
  /\ RunGoto(f, "clipboard")
  /\ UNCHANGED <<transcript, long, calls, clipboard, pasted, saved, notice, raw_text, polls>>
  /\ RunFrame

\* Line 298 and _copy_to_clipboard (336-349): pyperclip copies the text;
\* or it cannot be imported and pbcopy copies it, or pbcopy fails and the
\* failure is printed; or pyperclip.copy raises, which only the handler of
\* line 323 catches.
RunCopy(f) ==
  /\ job[f] = "clipboard"
  /\ calls' = [calls EXCEPT !["clipboard"] = @ + 1]
  /\ steps' = Append(steps, "output")
  /\ \E outcome \in {"copied", "pbcopy_copied", "pbcopy_failed", "copy_raises"} :
       /\ clipboard' = (IF outcome \in {"copied", "pbcopy_copied"}
                          THEN clipboard \cup {text} ELSE clipboard)
       /\ RunGoto(f, IF outcome = "copy_raises" THEN "except" ELSE "paste")
  /\ UNCHANGED <<transcript, long, text, ran, pasted, saved, notice, raw_text, polls>>
  /\ RunFrame

\* Lines 299-303 and _paste_to_active_app (351-373): with auto_paste the
\* keystroke is sent, or osascript fails and the failure is printed.
RunPaste(f) ==
  /\ job[f] = "paste"
  /\ IF auto_paste
       THEN /\ calls' = [calls EXCEPT !["paste"] = @ + 1]
            /\ \E sent \in BOOLEAN : pasted' = (pasted \/ sent)
       ELSE UNCHANGED <<calls, pasted>>
  /\ RunGoto(f, "save")
  /\ UNCHANGED <<transcript, long, text, ran, clipboard, saved, notice, raw_text, steps, polls>>
  /\ RunFrame

\* Lines 306-308 and _save_markdown (375-382): with save_markdown the text
\* is written to a new file, or open()/write() raises.
RunSave(f) ==
  /\ job[f] = "save"
  /\ IF save_markdown
       THEN /\ calls' = [calls EXCEPT !["save"] = @ + 1]
            /\ \E written \in BOOLEAN :
                 /\ saved' = (IF written THEN saved \cup {text} ELSE saved)
                 /\ RunGoto(f, IF written THEN "notify" ELSE "except")
       ELSE /\ UNCHANGED <<calls, saved>>
            /\ RunGoto(f, "notify")
  /\ UNCHANGED <<transcript, long, text, ran, clipboard, pasted, notice, raw_text, steps, polls>>
  /\ RunFrame

\* Lines 311-321: the notification of a completed run.
RunNotify(f) ==
  /\ job[f] = "notify"
  /\ notice' = "complete"
  /\ RunGoto(f, "finally_flag")
  /\ UNCHANGED <<transcript, long, text, ran, calls, clipboard, pasted, saved, raw_text, steps, polls>>
  /\ RunFrame

\* Lines 323-327: the handler of any exception of the try block.
RunExcept(f) ==
  /\ job[f] = "except"
  /\ notice' = "error"
  /\ RunGoto(f, "finally_flag")
  /\ UNCHANGED <<transcript, long, text, ran, calls, clipboard, pasted, saved, raw_text, steps, polls>>
  /\ RunFrame

PipelineNext ==
  \/ \E f \in FileIds : RunTranscribe(f)
  \/ \E f \in FileIds : RunVoiceCommands(f)
  \/ \E f \in FileIds : RunGetProfile(f)
  \/ \E f \in FileIds : RunFormat(f)
  \/ \E f \in FileIds : RunApplyProfile(f)
  \/ \E f \in FileIds : RunCopy(f)
  \/ \E f \in FileIds : RunPaste(f)
  \/ \E f \in FileIds : RunSave(f)
  \/ \E f \in FileIds : RunNotify(f)
  \/ \E f \in FileIds : RunExcept(f)
  \/ \E f \in FileIds : JobFinallyFlag(f)
  \/ \E f \in FileIds : JobFinallyUi(f)
  \/ \E f \in FileIds : JobCleanup(f)

\* One run of _process_audio, nothing else going on.
PipelineSpec == RunInit /\ [][PipelineNext]_vars

(***************************************************************************)
(* The text functions, each on its own                                     *)
(***************************************************************************)

\* An AppProfileManager, with profiles enabled or not, and nothing else
\* going on: get_profile is called, up to MaxCalls times.
ResolverInit ==
  /\ SessionInit
  /\ DetectorInit
  /\ DefaultConfig
  /\ RunNotStarted
  /\ commands_enabled = TRUE
  /\ profiles_enabled \in BOOLEAN
  /\ ProfileManagerInit
  /\ NoTextGiven
  /\ VoiceCommandsInit
  /\ OfflineFormatterInit

ResolverSpec == ResolverInit /\ [][ResolverNext]_vars

\* A text of at most MaxTokens pieces: _strip_markdown is called on it, and
\* again on what it returned, and apply_profile is called on it.
ReducerInit ==
  /\ SessionInit
  /\ DetectorInit
  /\ DefaultConfig
  /\ DefaultFeatures
  /\ RunNotStarted
  /\ ProfileManagerInit
  /\ src \in MarkdownTexts
  /\ passes = <<>>
  /\ applied = NotApplied
  /\ VoiceCommandsInit
  /\ OfflineFormatterInit

ReducerSpec == ReducerInit /\ [][ReducerNext]_vars

\* A VoiceCommandProcessor, enabled or not, with or without the user's
\* command, and a transcript of at most MaxWords pieces: process is called
\* on it.
VoiceInit ==
  /\ SessionInit
  /\ DetectorInit
  /\ DefaultConfig
  /\ RunNotStarted
  /\ profiles_enabled = TRUE
  /\ ProfileManagerInit
  /\ NoTextGiven
  /\ commands_enabled \in BOOLEAN
  /\ custom_commands \in CustomTables
  /\ heard \in Transcripts
  /\ vc_result = <<>>
  /\ voice_pc = "idle"
  /\ fired = <<>>
  /\ OfflineFormatterInit

VoiceSpec == VoiceInit /\ [][VoiceNext]_vars

\* An OfflineFormatter and a text of at most MaxPieces pieces: format_text
\* is called on it.
OfflineInit ==
  /\ SessionInit
  /\ DetectorInit
  /\ DefaultConfig
  /\ DefaultFeatures
  /\ RunNotStarted
  /\ ProfileManagerInit
  /\ NoTextGiven
  /\ VoiceCommandsInit
  /\ offline_raw \in FillerTexts
  /\ offline_called = FALSE
  /\ offline_text = <<>>

OfflineSpec == OfflineInit /\ [][OfflineNext]_vars

(***************************************************************************)
(* Properties of the double-tap detector                                   *)
(***************************************************************************)

\* The key goes up in this step, after being held for less than the tap
\* threshold (a qualifying tap) or for longer (a long hold).
Released == rcmd_was_pressed /\ ~rcmd_was_pressed'
QuickRelease == Released /\ now' - rcmd_press_time < TAP_THRESHOLD
LongRelease == Released /\ now' - rcmd_press_time >= TAP_THRESHOLD

\* C14: the release of a press held for the tap threshold or longer calls
\* toggle_recording never, and is not recorded as a tap: _rcmd_last_tap
\* stays what it was.
C14_LongHoldNeverTriggers ==
  [][LongRelease => (emitted' = emitted /\ rcmd_last_tap' = rcmd_last_tap)]_vars

\* C14: a tap is pending and the press after it was a long hold; nothing
\* was emitted.
C14_Witness ==
  /\ last_kind = "hold"
  /\ rcmd_last_tap # 0
  /\ ~rcmd_was_pressed
  /\ emitted = 0

\* C15: a qualifying tap that follows a long hold emits no Trigger,
\* whatever came before the hold.
C15_LongHoldClearsPendingTap ==
  [][(QuickRelease /\ last_kind = "hold") => emitted' = emitted]_vars

LeftTry(f) == job[f] \in {"except", "finally_flag", "finally_ui", "cleanup", "done"}

\* C18: when the remote formatter is selected, the step after it is the
\* profile post-processing, and the text handed on is the formatter's
\* result or, on any failure, the text that went in.
C18_RemoteFailureFallsBack ==
  [][\A f \in FileIds :
       (job[f] = "format" /\ has_formatter /\ long /\ job'[f] # job[f])
         => /\ job'[f] = "apply_profile"
            /\ text' \in {text, Append(text, "remote")}]_vars

\* C19: in a run whose transcript was empty or only white space no step
\* after transcription was entered and no sink was called or written.
C19_BlankTranscriptEndsRun ==
  transcript \in {"empty", "whitespace"} =>
    /\ ran = {}
    /\ text = <<>>
    /\ \A k \in Sinks : calls[k] = 0
    /\ clipboard = {}
    /\ ~pasted
    /\ saved = {}
    /\ \A f \in FileIds : job[f] \in {"none", "finally_flag", "finally_ui", "cleanup", "done"}

\* C19: a run whose transcript was only white space has ended; the user
\* was told no speech was found and the session is Idle again.
C19_Witness ==
  /\ transcript = "whitespace"
  /\ notice = "no_speech"
  /\ job[1] = "done"
  /\ ~processing
  /\ title = ICON_IDLE

\* C20: a run that called the clipboard writer and has left its try block
\* has called every other sink that is switched on, and none twice.
C20_SinksBestEffort ==
  \A f \in FileIds :
    (LeftTry(f) /\ calls["clipboard"] = 1)
      => /\ calls["paste"] = (IF auto_paste THEN 1 ELSE 0)
         /\ calls["save"] = (IF save_markdown THEN 1 ELSE 0)

(***************************************************************************)
(* Properties of the session controller                                    *)
(***************************************************************************)

\* No trigger handler is between two of its statements.
HandlersAtRest == \A t \in Threads : pc[t] = "idle"

\* The _process_audio threads that were started and have not ended.
ActiveJobs == {f \in FileIds : job[f] \notin {"none", "done"}}

\* C1: a trigger that finds _processing set changes neither flag nor the
\* recorder, the icon, the temporary files or the jobs, and leaves its
\* thread at rest with nothing pending; and from a state with every handler
\* at rest and no capture, a step that accepts no trigger (a rejection, a
\* job's step or end, a preload step) starts no capture.
C1_BusyTriggerDropped ==
  /\ [][\A t \in Threads :
          (processing /\ ToggleCheckProcessing(t))
            => UNCHANGED <<ctl, ui, recorder, pc, audio_path, nTriggers, job, fs>>]_vars
  /\ [][(HandlersAtRest /\ ~recording /\ ~rec_recording /\ openStreams = {}
           /\ HandlersAtRest')
          => (~recording' /\ ~rec_recording' /\ openStreams' = {})]_vars

\* C1: a trigger was rejected as busy; the job is still running, no handler
\* is running and nothing is being captured.
C1_Witness ==
  /\ notification = "busy"
  /\ processing
  /\ ActiveJobs # {}
  /\ HandlersAtRest
  /\ ~recording
  /\ openStreams = {}

\* C2: at most one _process_audio thread is active at any time.
C2_AtMostOneJob == Cardinality(ActiveJobs) <= 1

\* C3: _recording and _processing are never both true.
C3_OnePhase == ~(recording /\ processing)

\* C4: the recorder never has more than one open input stream, and the
\* open stream is the one AudioRecorder._stream refers to.
C4_AtMostOneCapture ==
  /\ Cardinality(openStreams) <= 1
  /\ openStreams = (IF rec_stream = 0 THEN {} ELSE {rec_stream})

\* C4: two triggers were accepted and both handlers have returned, the
\* second having called recorder.start() while the first capture was in
\* progress: still one stream, the first.
C4_Witness ==
  /\ nTriggers = 2
  /\ nStarts = 1
  /\ HandlersAtRest
  /\ recording
  /\ notification = "none"
  /\ openStreams = {1}

\* C5: whenever no trigger handler is mid-way, the recorder has an open
\* stream if and only if _recording is true.
C5_HandleIffCapturing == HandlersAtRest => ((openStreams # {}) <=> recording)

\* C6: when _processing is set and when the job is started, no input
\* stream is open and the recorder is not recording.
C6_TornDownBeforeProcessing ==
  [][((~processing /\ processing') \/ (\E f \in FileIds : job[f] = "none" /\ job'[f] = "load"))
       => (openStreams = {} /\ ~rec_recording)]_vars

\* Thread t takes a step of its handler.
Steps(t) == pc'[t] # pc[t]

\* What a handler does when it finds a model load in progress: it returns,
\* and neither flag, the recorder, the jobs nor the files change.
RejectedAsLoading(t) ==
  /\ pc'[t] = "idle"
  /\ notification' = "loading"
  /\ UNCHANGED <<ctl, ui, recorder, audio_path, job, fs>>

C8_CapturingTriggerStops ==
  [][\A t \in Threads :
       (received[t] = "Capturing" /\ Steps(t))
         => pc'[t] \in {"check_recording", "stop_flag"}]_vars

C11_IdleAfterFailure ==
  (HandlersAtRest /\ ActiveJobs = {} /\ openStreams = {}) => (~recording /\ ~processing)

\* The stream ids of the frames in a buffer or a file.
Captures(frames) == {frames[i] : i \in 1..Len(frames)}

\* C12: no two temporary files hold frames of one capture, so no capture
\* is handed to two jobs; and a stop that found frames does write a file.
C12_OneJobPerCapture ==
  /\ \A f \in files : \A g \in files \ {f} :
       Captures(fileFrames[f]) \cap Captures(fileFrames[g]) = {}
  /\ \A t \in Threads : pc[t] = "stop_write" => rec_frames # <<>>

\* C13: the recording stop() returns is not empty and holds no frame of a
\* capture that is still in progress.
C13_StopReturnsItsOwnFrames ==
  [][\A t \in Threads :
       (pc[t] = "stop_write" /\ Steps(t))
         => /\ pc'[t] = "stop_set_processing"
            /\ Captures(fileFrames'[audio_path'[t]]) \cap openStreams = {}]_vars

(***************************************************************************)
(* Progress of the processing jobs                                         *)
(***************************************************************************)

\* A step of the _process_audio thread of file f.
JobStep(f) ==
  \/ JobLoadModel(f)
  \/ JobTranscribe(f)
  \/ JobPipeline(f)
  \/ JobFinallyFlag(f)
  \/ JobFinallyUi(f)
  \/ JobCleanup(f)

\* A started thread keeps being scheduled, and the model load, the
\* transcription and the pipeline each return or raise.
FairSpec == Spec /\ \A f \in FileIds : WF_vars(JobStep(f))

\* C10: every started job reaches its end with its temporary file removed;
\* on the way, whatever ended the try block, it runs the finally block,
\* which clears _processing and restores the idle icon; a job that has
\* ended has left no file.
C10_JobAlwaysCleansUp ==
  /\ \A f \in FileIds : (job[f] = "load") ~> (job[f] = "done" /\ f \notin files)
  /\ [][\A f \in FileIds :
          /\ (job[f] = "finally_flag" /\ job'[f] # job[f]) => ~processing'
          /\ (job[f] = "finally_ui" /\ job'[f] # job[f]) => title' = ICON_IDLE
          /\ (job'[f] = "done" /\ job[f] # "done") => (job[f] = "cleanup" /\ f \notin files')
          /\ (job'[f] = "cleanup" /\ job[f] # "cleanup") => job[f] = "finally_ui"
          /\ (job'[f] = "finally_ui" /\ job[f] # "finally_ui") => job[f] = "finally_flag"]_vars

\* C10: the only job has ended, and it ended by the exception of a failed
\* model load (no preload thread has run yet, and the transcriber is not
\* loaded): its file is gone and _processing is false.
C10_Witness ==
  /\ job[1] = "done"
  /\ nFiles = 1
  /\ loaders["set_flag"] = 1
  /\ ~transcriber_loaded
  /\ 1 \notin files
  /\ ~processing

(***************************************************************************)
(* Properties of get_profile                                               *)
(***************************************************************************)

\* What a returned profile holds now.  A stored dict is returned as it is,
\* not copied (app_profiles.py 184-186, 190-193), so it holds what the
\* table holds; FALLBACK_PROFILE and its copies are not written to.
HoldsNow(r) == IF r.object > 0 THEN StoredProfile(r.object) ELSE r.contents

\* C21: get_profile leaves the stored table alone.  After any calls every
\* stored dict is as __init__ left it (it has no "_app_name"), and every
\* profile returned so far still holds what it held when it was returned.
C21_ResolveLeavesTableAlone ==
  /\ \A k \in 1..Len(DEFAULT_PROFILES) : stored_app_name[k] = NoAppName
  /\ \A n \in 1..Len(returned) : HoldsNow(returned[n]) = returned[n].contents

\* C22: for one name get_profile returns the same contents whatever was
\* asked before, and with profiles not enabled it returns FALLBACK_PROFILE
\* for every name.
C22_ResolveDeterministic ==
  /\ \A n, m \in 1..Len(returned) :
       returned[n].app_name = returned[m].app_name
         => returned[n].contents = returned[m].contents
  /\ ~profiles_enabled =>
       \A n \in 1..Len(returned) : returned[n].contents = SharedFallback

\* A name was asked for twice, and between the two calls another name got
\* the same stored dict, which then carried that other name.
C22_Witness ==
  /\ Len(returned) = 3
  /\ returned[1].app_name = returned[3].app_name
  /\ returned[1].object > 0
  /\ returned[2].object = returned[1].object
  /\ returned[2].app_name # returned[1].app_name

\* The entries whose key is part of the name or has the name as a part,
\* letter case apart.
PartialMatches(app_name) ==
  {k \in 1..Len(DEFAULT_PROFILES) :
     \/ Contains(Lower(app_name), Lower(DEFAULT_PROFILES[k].key))
     \/ Contains(Lower(DEFAULT_PROFILES[k].key), Lower(app_name))}

\* The entry the rule "exact key, else first partial match in insertion
\* order" gives for a name, 0 for none.
RuleEntry(app_name) ==
  LET exact == {k \in 1..Len(DEFAULT_PROFILES) : DEFAULT_PROFILES[k].key = app_name}
  IN  IF exact # {} THEN Least(exact)
      ELSE IF PartialMatches(app_name) # {} THEN Least(PartialMatches(app_name))
      ELSE 0

\* The n-th call returned what the rule gives: the stored profile of the
\* rule's entry, or a fallback profile of its own that carries the name.
FollowsRule(n) ==
  LET r == returned[n]
      k == RuleEntry(r.app_name)
  IN  IF k > 0
        THEN /\ r.object = k
             /\ r.contents = [StoredProfile(k) EXCEPT !.app_name = r.app_name]
        ELSE /\ r.object < 0
             /\ r.contents = [SharedFallback EXCEPT !.app_name = r.app_name]

\* C30 as stated: with profiles enabled, every call returns the profile
\* under the exact key, else the first partial match in insertion order,
\* else a fallback that carries the name, for every name.
C30_ResolveExactThenPartial ==
  profiles_enabled => \A n \in 1..Len(returned) : FollowsRule(n)

\* C30: with profiles enabled, a call with a name that is not empty
\* returns the profile under the exact key, else the first partial match
\* in insertion order, else a fallback of its own that carries the name
\* (auto, no stripping, no newline); a call with the empty name returns
\* FALLBACK_PROFILE itself, which carries no name.
C30_ResolveNonEmptyName ==
  profiles_enabled =>
    \A n \in 1..Len(returned) :
      IF returned[n].app_name = <<>>
        THEN returned[n].object = 0 /\ returned[n].contents = SharedFallback
        ELSE FollowsRule(n)

\* A name that is no key and is part of two keys got the first of them.
C30_Witness ==
  /\ profiles_enabled
  /\ \E n \in 1..Len(returned) :
       /\ returned[n].object > 0
       /\ DEFAULT_PROFILES[returned[n].object].key # returned[n].app_name
       /\ \E k \in PartialMatches(returned[n].app_name) : k > returned[n].object

(***************************************************************************)
(* Properties of _strip_markdown and apply_profile                         *)
(***************************************************************************)

\* C23: _strip_markdown is idempotent: called on what it returned, it
\* returns the same text again, for every text.
C23_StripMarkdownIdempotent ==
  Len(passes) >= 2 => passes[2] = passes[1]

\* The text has a fenced code block, and outside its fenced blocks neither
\* a backtick nor the letter c.
FencedBlocksOnly(s) ==
  /\ DeleteFences(s, 1) # s
  /\ "backtick" \notin Chars(DeleteFences(s, 1))
  /\ "c" \notin Chars(DeleteFences(s, 1))

\* C26: _strip_markdown deletes fenced code blocks whole.  Of a text whose
\* backticks and whose letters c are all in fenced blocks, neither a
\* backtick nor a c is left, and the rest is reduced as if the blocks
\* were not there.
C26_FencedBlocksDeleted ==
  (passes # <<>> /\ FencedBlocksOnly(src)) =>
    /\ "backtick" \notin Chars(passes[1])
    /\ "c" \notin Chars(passes[1])
    /\ passes[1] = StripMarkdown(DeleteFences(src, 1))

\* s.endswith("\n")
EndsInNewline(s) == s # <<>> /\ s[Len(s)] = "\n"

\* What apply_profile is said to make of a text: reduced if the profile
\* strips, and then with a newline behind it if the profile adds one and
\* there is none.
PostProcessed(s, profile) ==
  LET reduced == IF profile.strip_markdown THEN StripMarkdown(s) ELSE s
  IN  IF profile.add_trailing_newline /\ ~EndsInNewline(reduced)
        THEN reduced \o <<"\n">> ELSE reduced

\* C29 as stated: apply_profile reduces the text iff the profile strips and
\* then appends a newline iff the profile adds one and the text does not
\* end in one, for every text.
C29_ProfilePostProcessing ==
  applied.called => applied.result = PostProcessed(src, applied.profile)

\* C29: apply_profile returns an empty text as it is; a text that is not
\* empty it reduces iff the profile strips, and then appends one newline
\* iff the profile adds one and the text does not end in one.  So with
\* add_trailing_newline the result for a text that is not empty ends in
\* exactly the newline it had or got, and with both flags off the text is
\* returned unchanged.
C29_PostProcessingOfNonEmptyText ==
  applied.called =>
    /\ src = <<>> => applied.result = <<>>
    /\ src # <<>> => applied.result = PostProcessed(src, applied.profile)
    /\ (src # <<>> /\ applied.profile.add_trailing_newline) => EndsInNewline(applied.result)
    /\ (~applied.profile.strip_markdown /\ ~applied.profile.add_trailing_newline)
         => applied.result = src

\* A text that ends in a newline was given to a profile that adds one and
\* does not strip, and one that the reducer empties to a profile that does
\* both.
C29_Witness ==
  /\ applied.called
  /\ applied.profile.add_trailing_newline
  /\ src # <<>>
  /\ \/ ~applied.profile.strip_markdown /\ EndsInNewline(src)
     \/ applied.profile.strip_markdown /\ applied.result = <<"\n">>

(***************************************************************************)
(* Properties of process                                                   *)
(***************************************************************************)

\* process has gone through its patterns.
Processed == voice_pc = "returned" /\ commands_enabled /\ heard # <<>>

\* The phrase a is a proper part of the phrase b.
ProperPart(a, b) == Len(a) < Len(b) /\ Contains(b, a)

\* C24: of two commands where the phrase of one is a proper part of the
\* phrase of the other, the longer wins.  When the transcript has the
\* longer phrase as a word, each such word is rewritten by the longer
\* command, and the shorter command rewrites only the words that are its
\* own phrase; built-in and user's commands alike.
C24_LongerTriggerWins ==
  Processed =>
    LET commands == SortedCommands(custom_commands)
    IN  \A a, b \in 1..Len(commands) :
          (/\ ProperPart(commands[a][1], commands[b][1])
           /\ Occurrences(heard, 1, commands[b][1]) > 0)
          => /\ fired[b] = Occurrences(heard, 1, commands[b][1])
             /\ fired[a] = Occurrences(heard, 1, commands[a][1])

\* C25: what a command writes is never taken as the phrase of another
\* command in the same call.  For every command table, the user's
\* commands included, each command rewrites exactly the words of the
\* transcript as it came that are its phrase.
C25_OnlyOriginalTriggers ==
  Processed =>
    LET commands == SortedCommands(custom_commands)
    IN  \A k \in 1..Len(commands) : fired[k] = Occurrences(heard, 1, commands[k][1])

(***************************************************************************)
(* Properties of the steps of a run                                        *)
(***************************************************************************)

\* The run called a formatter.
FormatterCalled == "format_remote" \in ran \/ "format_offline" \in ran

\* Just one of the two formatters was called, the remote one iff there is
\* a Formatter and the given text has RemoteMinLength characters or more.
OneFormatterFor(txt) ==
  /\ ("format_remote" \in ran) = (has_formatter /\ Len(txt) >= RemoteMinLength)
  /\ ("format_offline" \in ran) = ~("format_remote" \in ran)

\* C27 as stated: the remote formatter is called iff there is a Formatter
\* and the transcript has 100 characters or more, else the offline one,
\* and just one of them in a run.
C27_RemoteIffLongTranscript ==
  FormatterCalled => OneFormatterFor(raw_text)

\* C27: the remote formatter is called iff there is a Formatter and the
\* text has 100 characters or more after the voice commands were applied
\* to the transcript, else the offline one, and just one of them in a run.
C27_RemoteIffLongProcessedText ==
  FormatterCalled =>
    OneFormatterFor(Process(commands_enabled, SortedCommands(<<>>), raw_text))

\* With a Formatter, a transcript of 100 characters or more went to the
\* offline formatter, or a shorter one to the remote formatter.
C27_Witness ==
  /\ has_formatter
  /\ \/ "format_offline" \in ran /\ Len(raw_text) >= RemoteMinLength
     \/ "format_remote" \in ran /\ Len(raw_text) < RemoteMinLength

\* The steps of a run in the order of _process_audio (main.py 267-298).
PipelineOrder == <<"voice_cmd", "get_profile", "format", "apply_profile", "output">>

\* The steps entered so far are the first steps of PipelineOrder, each
\* once.
StepsInOrder == \E n \in 0..Len(PipelineOrder) : steps = SubSeq(PipelineOrder, 1, n)

\* The run has reached its output.
ReachedOutput == \E n \in 1..Len(steps) : steps[n] = "output"

\* C28 as stated: a run that reaches its output went through voice
\* commands, profile lookup, formatting, post-processing and output, each
\* once and in this order, and asked for the active application once.
C28_StepsOnceInOrder ==
  /\ StepsInOrder
  /\ ReachedOutput => (steps = PipelineOrder /\ polls = 1)

\* C28: a run that reaches its output went through voice commands, profile
\* lookup, formatting, post-processing and output, each once and in this
\* order; it asked for the active application once if profiles are
\* enabled and not at all if they are not.
C28_StepsOnceInOrderPolledIfEnabled ==
  /\ StepsInOrder
  /\ ReachedOutput =>
       /\ steps = PipelineOrder
       /\ polls = (IF profiles_enabled THEN 1 ELSE 0)

\* A run with profiles enabled copied its text after the remote formatter.
C28_Witness ==
  /\ ReachedOutput
  /\ profiles_enabled
  /\ polls = 1
  /\ "format_remote" \in ran

(***************************************************************************)
(* Properties of the offline formatter                                     *)
(***************************************************************************)

\* What may stand on either side of a word: whitespace and the
\* punctuation marks of the pattern of formatter.py 155.
WordBoundaries == UnicodeWhitespace \cup {"touten", "kuten"}

\* The filler stands at position i of s with a boundary or an end of the
\* text on each side.
FillerDelimitedAt(s, i, filler) ==
  /\ StartsWith(s, i, filler)
  /\ i = 1 \/ s[i - 1] \in WordBoundaries
  /\ i + Len(filler) > Len(s) \/ s[i + Len(filler)] \in WordBoundaries

\* No filler stands in s as a word of its own.
NoFillerDelimited(s) ==
  \A k \in 1..Len(FILLERS) : \A i \in 1..Len(s) :
    ~FillerDelimitedAt(s, i, FILLERS[k])

\* C31: format_text of the OfflineFormatter removes a filler only where
\* whitespace, punctuation or an end of the text is on both sides of it.
\* Of a text in which no filler stands so, and in particular of one where
\* a filler is only the beginning of a longer word, no filler is removed:
\* what is returned is the text with its spaces and blank lines tidied.
C31_FillerRemovedOnlyWhereDelimited ==
  (offline_called /\ NoFillerDelimited(offline_raw)) =>
    offline_text = TidySpaces(offline_raw)

(***************************************************************************)
(* Properties of the icon and the record button                            *)
(***************************************************************************)

\* No handler of a trigger is under way, and no _process_audio thread is
\* between the write of its flag (main.py 330) and that of the icon and
\* the button (lines 331-332).
NoStepUnderWay ==
  /\ \A t \in Threads : pc[t] = "idle"
  /\ \A f \in FileIds : job[f] # "finally_ui"

\* The icon and the button title that go with the flags.
UiMatchesFlags ==
  /\ title = ICON_RECORDING <=> recording
  /\ title = ICON_PROCESSING <=> processing
  /\ title = ICON_IDLE <=> (~recording /\ ~processing)
  /\ button = BTN_STOP <=> recording
  /\ button = BTN_BUSY <=> processing
  /\ button = BTN_START <=> (~recording /\ ~processing)

\* C32: whenever no handler and no processing thread is in the middle of a
\* step, the icon and the button title match the flags: recording iff
\* _recording, processing iff _processing, idle iff neither, also after a
\* capture start, a capture stop or a processing thread that ended with an
\* exception.
C32_UiMatchesPhase == NoStepUnderWay => UiMatchesFlags

====
